---- MODULE Spec2Model ----
(***************************************************************************)
(* Whale worker: trade ingestion-and-dispatch pipeline.                    *)
(*                                                                         *)
(* Units.  Sizes are integers, prices are integers in hundredths (40 is    *)
(* 0.40), notionals are size * price in the same hundredths, and the       *)
(* volume-weighted average price is the exact quotient kept as a reduced   *)
(* fraction [num, den]: the arithmetic is that of the reals, IEEE          *)
(* rounding of the Python floats is not represented.  The clock `now` is   *)
(* in minutes.                                                             *)
(***************************************************************************)
EXTENDS Integers, Sequences, FiniteSets, TLC

VARIABLES
    \* ---- persistent store (MongoDB) ----
    processedTrades,     \* processedTrades collection: fillKey -> expiresAt, NoDoc when absent
    cursorStore,         \* whaleAlertCursors document 'whale_worker_global', NoMarker when absent
    marketCache,         \* marketMetadata collection: the condition ids that have a document
    reloadSignal,        \* filterReloadSignals holds the document 'global'
    filterStore,         \* what get_all_user_filters() reads: enabled configs with an active chat
    feed,                \* Data API: the trade lists a request can be answered with
    \* ---- clock ----
    now,                 \* datetime.utcnow(), minutes
    \* ---- run_worker locals ----
    pc,                  \* position of the poll loop
    last_marker,         \* in-memory TradeMarker, NoMarker for None
    all_user_filters,    \* in-memory filter list
    last_filter_reload,  \* time of the latest successful filter load
    reload_reason,       \* "" unless this cycle's check asked for a reload (kept until its last read)
    trades,              \* result of fetch_recent_trades in this cycle
    new_fills,           \* fills that survived deduplication
    fill_groups,         \* insertion-ordered dict: sequence of [key, fills]
    aggregated_trades,   \* list of AggregatedTrade built so far
    match_i,             \* index of the next aggregated trade to match (Step 4 loop)
    \* ---- notification queue (producer side) ----
    queue,               \* NotificationQueue.queue: sequence of [chat_id, message]
    \* ---- history (not program state) ----
    lastMark,            \* fillKey -> [at, ttl] of the latest mark_trade_as_processed, NoMark before
    lastEnq,             \* <<fillKey, user_id>> -> time of the latest enqueue, -1 before
    enqCount,            \* <<aggregation key id, user_id>> -> number of enqueues so far
    live_at_dedup,       \* fill keys whose record was live when this cycle deduplicated
    cyc,                 \* bookkeeping of the current cycle: start marker, writes, outcome,
                         \* how the reload went (kept until the fetch), and whether the
                         \* reload of this or of the previous cycle failed
    cycles,              \* number of cycles started (all runs of the process)
    saves,               \* number of settings saves so far
    crashes,             \* number of process crashes
    \* ---- dedup store exercised directly ----
    check_result,        \* record of the latest is_trade_processed call, NoCheck before
    \* ---- aggregation exercised directly ----
    agg_in, agg_out, agg_done,
    \* ---- filter predicate exercised directly ----
    flt_in, flt_out, flt_done,
    \* ---- filter list matching exercised directly ----
    mu_in, mu_out, mu_done,
    \* ---- notification queue (consumer side) ----
    nq,                  \* NotificationQueue: last_global_send, last_chat_send
    cons,                \* the worker thread: position and locals of _worker_loop,
                         \* _apply_rate_limits and _send_message
    hist,                \* history (not program state): enqueues, attempts, finished messages
    telegramAccounts,    \* telegramAccounts collection: chatId -> isActive
    life,                \* NotificationQueue.running, the worker threads alive besides the
                         \* one in cons, and the thread that calls start() and stop()
    \* ---- filter load exercised directly ----
    whaleAlertConfigs,   \* whaleAlertConfigs collection: sequence of [userId, enabled]
    load                 \* one call of get_all_user_filters: position, locals, and what
                         \* the collections held at each of its reads (history)

reloadVars == <<reloadSignal, filterStore, last_filter_reload, reload_reason, saves, feed>>
loopVars  == <<pc, last_marker, all_user_filters, trades, new_fills, fill_groups,
               aggregated_trades, match_i, cursorStore, marketCache,
               lastEnq, enqCount, live_at_dedup, cyc, cycles, crashes, reloadVars>>
pollVars  == <<loopVars, queue>>
storeVars == <<processedTrades, now, lastMark>>
dedupVars == <<check_result>>
aggVars   == <<agg_in, agg_out, agg_done>>
fltVars   == <<flt_in, flt_out, flt_done>>
muVars    == <<mu_in, mu_out, mu_done>>
consVars  == <<nq, cons, hist, telegramAccounts, life>>
loadVars  == <<whaleAlertConfigs, load>>
vars      == <<pollVars, storeVars, dedupVars, aggVars, fltVars, muVars, consVars, loadVars>>

(***************************************************************************)
(* Bounds of the model.                                                    *)
(***************************************************************************)
MaxTime     == 20    \* the clock stops here
TimeStep    == 10    \* minutes that pass in one tick of the clock
MaxCycles   == 2     \* poll cycles started, over all runs of the process
MaxCrashes  == 1     \* process crashes
MaxSaves    == 2     \* settings saves by users
MaxBatch    == 3     \* length of a fill batch given to the aggregator directly
MaxFilters  == 3     \* length of a filter list given to the matcher directly
MAX_TRADES_PER_POLL == 3   \* config.MAX_TRADES_PER_POLL (environment), rows per response

(***************************************************************************)
(* Program constants.                                                      *)
(***************************************************************************)
DefaultTtlMinutes == 15     \* mark_trade_as_processed(ttl_minutes=15)

None   == "<None>"          \* Python None
NoDoc  == -1                \* no document for the key
NoMark == [at |-> -1, ttl |-> 0]
NoCheck == [key |-> "", at |-> -1, result |-> FALSE, mark |-> NoMark, stored |-> FALSE]
\* "no marker": get_last_processed_trade_marker() returning None
NoMarker == [last_processed_timestamp |-> -1, last_processed_tx_hash |-> None]

Falsy(s) == s = None \/ s = ""

\* str.lower() / str.upper() on the strings that occur
lower(s) ==
    CASE s = "0xAB"     -> "0xab"
      [] s = "Sports"   -> "sports"
      [] s = "SPORTS"   -> "sports"
      [] s = "Politics" -> "politics"
      [] s = "Crypto"   -> "crypto"
      [] s = " Crypto " -> " crypto "
      [] s = "Finance"  -> "finance"
      [] OTHER          -> s

\* str.strip() on the strings that occur
strip(s) == IF s = " crypto " THEN "crypto" ELSE s

upper(s) ==
    CASE s = "buy"  -> "BUY"
      [] s = "sell" -> "SELL"
      [] OTHER      -> s

Range(s) == {s[i] : i \in DOMAIN s}

RECURSIVE GCD(_, _)
GCD(a, b) == IF b = 0 THEN a ELSE GCD(b, a % b)

\* the quotient a / b (b > 0) as a reduced fraction
Quot(a, b) == LET g == GCD(a, b) IN [num |-> a \div g, den |-> b \div g]
Zero == [num |-> 0, den |-> 1]

(***************************************************************************)
(* types.py: Trade                                                         *)
(***************************************************************************)
Trade(tx, wallet, side, size, price, cond, outcome, ts) ==
    [transaction_hash |-> tx, proxy_wallet |-> wallet, side |-> side,
     size |-> size, price |-> price, condition_id |-> cond,
     outcome |-> outcome, timestamp |-> ts]

notional(fill) == fill.size * fill.price

get_fill_key(fill) ==
    LET outcome_str   == IF Falsy(fill.outcome) THEN "None" ELSE fill.outcome
        condition_str == IF Falsy(fill.condition_id) THEN "None" ELSE fill.condition_id
    IN  fill.transaction_hash \o ":" \o fill.proxy_wallet \o ":" \o condition_str
          \o ":" \o outcome_str \o ":" \o fill.side \o ":" \o ToString(fill.size)
          \o ":" \o ToString(fill.price)

get_aggregation_key(fill) ==
    <<fill.transaction_hash,
      fill.proxy_wallet,
      IF Falsy(fill.condition_id) THEN None ELSE fill.condition_id,
      IF Falsy(fill.outcome) THEN None ELSE fill.outcome,
      fill.side>>

(***************************************************************************)
(* types.py: AggregatedTrade.from_fills (called with a non-empty list)     *)
(***************************************************************************)
RECURSIVE SumSize(_)
SumSize(fills) == IF fills = <<>> THEN 0 ELSE Head(fills).size + SumSize(Tail(fills))

RECURSIVE SumNotional(_)
SumNotional(fills) ==
    IF fills = <<>> THEN 0 ELSE notional(Head(fills)) + SumNotional(Tail(fills))

RECURSIVE MaxTimestamp(_)
MaxTimestamp(fills) ==
    IF Len(fills) = 1 THEN fills[1].timestamp
    ELSE LET m == MaxTimestamp(Tail(fills))
         IN  IF Head(fills).timestamp >= m THEN Head(fills).timestamp ELSE m

\* the price averaged over the fills instead of weighted by their sizes
from_fills_MeanPrice(fills) ==
    LET first_fill     == fills[1]
        total_size     == SumSize(fills)
        total_notional == SumNotional(fills)
    IN  [transaction_hash   |-> first_fill.transaction_hash,
         proxy_wallet       |-> first_fill.proxy_wallet,
         condition_id       |-> first_fill.condition_id,
         outcome            |-> first_fill.outcome,
         side               |-> first_fill.side,
         total_size         |-> total_size,
         total_notional_usd |-> total_notional,
         vwap_price         |-> Quot(SumNotional([i \in DOMAIN fills |->
                                        [fills[i] EXCEPT !.size = 1]]), Len(fills)),
         timestamp          |-> MaxTimestamp(fills),
         fill_count         |-> Len(fills)]

from_fills(fills) ==
    LET first_fill     == fills[1]
        total_size     == SumSize(fills)
        total_notional == SumNotional(fills)
        vwap_price     == IF total_size > 0 THEN Quot(total_notional, total_size) ELSE Zero
        max_timestamp  == MaxTimestamp(fills)
    IN  [transaction_hash   |-> first_fill.transaction_hash,
         proxy_wallet       |-> first_fill.proxy_wallet,
         condition_id       |-> first_fill.condition_id,
         outcome            |-> first_fill.outcome,
         side               |-> first_fill.side,
         total_size         |-> total_size,
         total_notional_usd |-> total_notional,
         vwap_price         |-> vwap_price,
         timestamp          |-> max_timestamp,
         fill_count         |-> Len(fills)]

(***************************************************************************)
(* main.py Step 2: fill_groups = defaultdict(list), filled in batch order  *)
(***************************************************************************)
RECURSIVE GroupInto(_, _)
GroupInto(groups, fills) ==
    IF fills = <<>> THEN groups
    ELSE LET fill    == Head(fills)
             agg_key == get_aggregation_key(fill)
             at      == {i \in DOMAIN groups : groups[i].key = agg_key}
         IN  IF at = {}
             THEN GroupInto(Append(groups, [key |-> agg_key, fills |-> <<fill>>]), Tail(fills))
             ELSE LET i == CHOOSE j \in at : TRUE
                  IN  GroupInto([groups EXCEPT ![i].fills = Append(@, fill)], Tail(fills))

GroupFills(fills) == GroupInto(<<>>, fills)

\* main.py Step 2 as a whole, without the store writes: one trade per group
AggregateFills(fills) ==
    LET groups == GroupFills(fills)
    IN  [i \in DOMAIN groups |-> from_fills(groups[i].fills)]

(***************************************************************************)
(* types.py: MarketMetadata, UserFilter (the fields the pipeline reads)    *)
(***************************************************************************)
MarketMetadata(cond, category, tag_ids, is_sports, categories) ==
    [condition_id |-> cond, category |-> category, tag_ids |-> tag_ids,
     is_sports |-> is_sports, categories |-> categories]

UserFilter(user_id, min_notional_usd, min_price, max_price, sides, markets_filter, category_filter, exclude_categories, selected_categories, enabled, chat) ==
    [user_id |-> user_id, min_notional_usd |-> min_notional_usd,
     min_price |-> min_price, max_price |-> max_price, sides |-> sides,
     markets_filter |-> markets_filter, category_filter |-> category_filter,
     exclude_categories |-> exclude_categories,
     selected_categories |-> selected_categories, enabled |-> enabled,
     telegram_chat_id |-> chat]

\* min_price <= vwap_price <= max_price, vwap_price a fraction
InPriceRange(vwap, min_price, max_price) ==
    /\ min_price * vwap.den <= vwap.num
    /\ vwap.num <= max_price * vwap.den

(***************************************************************************)
(* db.py get_all_user_filters: selectedCategories of a walletFilters       *)
(* document, made from excludeCategories when it has none of its own       *)
(***************************************************************************)
all_categories ==
    <<"Politics", "Sports", "Crypto", "Finance", "Geopolitics", "Earnings",
      "Tech", "Culture", "World", "Economy", "Trump", "Elections", "Mentions">>

category_map ==
    ("politics" :> "Politics") @@ ("sports" :> "Sports") @@ ("crypto" :> "Crypto")
    @@ ("finance" :> "Finance") @@ ("geopolitics" :> "Geopolitics")
    @@ ("earnings" :> "Earnings") @@ ("tech" :> "Tech") @@ ("culture" :> "Culture")
    @@ ("world" :> "World") @@ ("economy" :> "Economy") @@ ("trump" :> "Trump")
    @@ ("elections" :> "Elections") @@ ("mentions" :> "Mentions")

excluded_canonical(exclude_categories) ==
    LET cat_lower(cat) == strip(lower(cat))
    IN  {category_map[cat_lower(cat)] :
            cat \in {c \in Range(exclude_categories) : cat_lower(c) \in DOMAIN category_map}}
        \cup {cat \in Range(exclude_categories) :
                 cat_lower(cat) \notin DOMAIN category_map /\ cat \in Range(all_categories)}

\* if not selected_categories and exclude_categories: the inversion
load_selected_categories(selected_categories, exclude_categories) ==
    IF selected_categories = <<>> /\ exclude_categories # <<>>
    THEN SelectSeq(all_categories, LAMBDA cat : cat \notin excluded_canonical(exclude_categories))
    ELSE selected_categories

(***************************************************************************)
(* filters.py: aggregated_trade_matches_user_filter                        *)
(***************************************************************************)
aggregated_trade_matches_user_filter(agg_trade, market, user_filter) ==
    LET excl        == Range(user_filter.exclude_categories)
        excl_lower  == {lower(c) : c \in excl}
        catf        == Range(user_filter.category_filter)
        catf_lower  == {lower(c) : c \in catf}
        market_tag_ids == Range(market.tag_ids)
    IN
    IF ~user_filter.enabled THEN FALSE
    \* 1. notional threshold
    ELSE IF agg_trade.total_notional_usd < user_filter.min_notional_usd THEN FALSE
    \* 2. price range
    ELSE IF ~InPriceRange(agg_trade.vwap_price, user_filter.min_price, user_filter.max_price)
         THEN FALSE
    \* 3. side
    ELSE IF agg_trade.side \notin Range(user_filter.sides) THEN FALSE
    \* 4. exclude sports
    ELSE IF "sports" \in excl_lower /\ market.is_sports THEN FALSE
    \* 5. exclude categories (legacy category field or is_sports)
    ELSE IF \E excluded_cat \in excl :
               \/ lower(excluded_cat) = "sports" /\ market.is_sports
               \/ ~Falsy(market.category) /\ lower(market.category) = lower(excluded_cat)
         THEN FALSE
    \* 6. include tag ids (legacy category_filter)
    ELSE IF /\ user_filter.category_filter # <<>>
            /\ market_tag_ids \cap catf = {}
            /\ (Falsy(market.category) \/ lower(market.category) \notin catf_lower)
         THEN FALSE
    \* 7. specific markets
    ELSE IF /\ user_filter.markets_filter # <<>>
            /\ agg_trade.condition_id \notin Range(user_filter.markets_filter)
         THEN FALSE
    ELSE TRUE

(***************************************************************************)
(* filters.py: get_matching_users_for_aggregated_trade                     *)
(***************************************************************************)
\* matching.insert(0, user_filter): the latest match put first
get_matching_users_for_aggregated_trade_Prepend(agg_trade, market, filters) ==
    LET matching == SelectSeq(filters, LAMBDA user_filter :
                        aggregated_trade_matches_user_filter(agg_trade, market, user_filter))
    IN  [i \in DOMAIN matching |-> matching[Len(matching) + 1 - i]]

get_matching_users_for_aggregated_trade(agg_trade, market, filters) ==
    SelectSeq(filters, LAMBDA user_filter :
        aggregated_trade_matches_user_filter(agg_trade, market, user_filter))

(***************************************************************************)
(* db.py: processedTrades collection                                       *)
(***************************************************************************)
\* find_one({fillKey, expiresAt: {$lt: now}}): the comparison turned round
is_trade_processed_Reversed(fill_key) ==
    /\ processedTrades[fill_key] # NoDoc
    /\ processedTrades[fill_key] < now

\* find_one({fillKey: fill_key}): the expiry left out of the query
is_trade_processed_AnyDoc(fill_key) == processedTrades[fill_key] # NoDoc

\* find_one({fillKey: fill_key, expiresAt: {$gt: utcnow()}}) is not None
is_trade_processed(fill_key) ==
    /\ processedTrades[fill_key] # NoDoc
    /\ processedTrades[fill_key] > now

\* update_one({fillKey}, {$set: {expiresAt: utcnow() + timedelta(minutes=ttl)}}, upsert=True)
mark_trade_as_processed(store, fill_key, ttl_minutes) ==
    [store EXCEPT ![fill_key] = now + ttl_minutes]

\* TTL index on expiresAt, expireAfterSeconds=0: the server deletes expired documents
ReapExpired(store) ==
    [k \in DOMAIN store |-> IF store[k] # NoDoc /\ store[k] <= now THEN NoDoc ELSE store[k]]

(***************************************************************************)
(* types.py: TradeMarker; db.py: whaleAlertCursors                         *)
(***************************************************************************)
TradeMarker(ts, tx) == [last_processed_timestamp |-> ts, last_processed_tx_hash |-> tx]

get_last_processed_trade_marker == cursorStore

(***************************************************************************)
(* The Data API: rows the trade source can return                          *)
(***************************************************************************)
Row(tx, size, price, ts, wallet, side, cond, outcome) ==
    [transactionHash |-> tx, size |-> size, price |-> price, timestamp |-> ts,
     proxyWallet |-> wallet, side |-> side, conditionId |-> cond, outcome |-> outcome]

RowA1 == Row("t1", 2, 40, 2, "0xAB", "BUY",  "c1", "Yes")
RowA2 == Row("t1", 1, 50, 3, "0xab", "buy",  "c1", "Yes")
RowB  == Row("t2", 3, 30, 3, "0xab", "SELL", "c2", "No")
RowBad == Row("t3", 0, 30, 3, "0xab", "SELL", "c2", "No")

Rows == {RowA1, RowA2, RowB, RowBad}

RECURSIVE SeqsUpTo(_, _)
SeqsUpTo(S, n) ==
    IF n = 0 THEN {<<>>}
    ELSE LET shorter == SeqsUpTo(S, n - 1)
         IN  shorter \cup {Append(s, x) : s \in {t \in shorter : Len(t) = n - 1}, x \in S}

\* what a GET /trades?limit=MAX_TRADES_PER_POLL can answer
DataResponses == SeqsUpTo(Rows, MAX_TRADES_PER_POLL)

(***************************************************************************)
(* polymarket_client.py: fetch_recent_trades                               *)
(***************************************************************************)
RowToTrade(item) ==
    Trade(item.transactionHash,
          IF Falsy(item.proxyWallet) THEN "" ELSE lower(item.proxyWallet),
          upper(item.side), item.size, item.price,
          item.conditionId, item.outcome, item.timestamp)

RowValid(item) ==
    /\ ~Falsy(item.transactionHash)
    /\ ~(item.size <= 0 \/ item.price <= 0 \/ item.timestamp <= 0)
    /\ upper(item.side) \in {"BUY", "SELL"}

\* the for-loop over the rows: invalid rows and exact duplicates are skipped
RECURSIVE ConvertRows(_, _, _)
ConvertRows(data, acc, seen_fill_keys) ==
    IF data = <<>> THEN acc
    ELSE LET item == Head(data)
         IN  IF ~RowValid(item) THEN ConvertRows(Tail(data), acc, seen_fill_keys)
             ELSE LET trade    == RowToTrade(item)
                      fill_key == get_fill_key(trade)
                  IN  IF fill_key \in seen_fill_keys
                      THEN ConvertRows(Tail(data), acc, seen_fill_keys)
                      ELSE ConvertRows(Tail(data), Append(acc, trade),
                                       seen_fill_keys \cup {fill_key})

\* insert t behind every element that is at least as new: a stable descending sort
RECURSIVE InsertNewestFirst(_, _)
InsertNewestFirst(sorted, t) ==
    IF sorted = <<>> THEN <<t>>
    ELSE IF Head(sorted).timestamp >= t.timestamp
         THEN <<Head(sorted)>> \o InsertNewestFirst(Tail(sorted), t)
         ELSE <<t>> \o sorted

RECURSIVE SortFrom(_, _)
SortFrom(sorted, rest) ==
    IF rest = <<>> THEN sorted
    ELSE SortFrom(InsertNewestFirst(sorted, Head(rest)), Tail(rest))

\* the sort left out: the rows stay in the order of the response
SortNewestFirst_Unsorted(ts) == ts

\* trades.sort(key=lambda t: t.timestamp, reverse=True)
SortNewestFirst(ts) == SortFrom(<<>>, ts)

fetch_recent_trades(data) == SortNewestFirst(ConvertRows(data, <<>>, {}))

\* what fetch_recent_trades can return, over all responses
FetchResults == {fetch_recent_trades(data) : data \in DataResponses}

\* every Trade the worker can hold, and the keys of the dedup store
AllTrades == {RowToTrade(r) : r \in {x \in Rows : RowValid(x)}}
FillKeys  == {get_fill_key(t) : t \in AllTrades}
AggKeys   == {get_aggregation_key(t) : t \in AllTrades}

(***************************************************************************)
(* Idle parts: a specification that exercises one component keeps the      *)
(* variables of the others at these values.                                *)
(***************************************************************************)
StoreInit ==
    /\ processedTrades = [k \in FillKeys |-> NoDoc]
    /\ now = 0
    /\ lastMark = [k \in FillKeys |-> NoMark]

PollIdle ==
    /\ pc = "off"
    /\ last_marker = NoMarker /\ cursorStore = NoMarker /\ marketCache = {}
    /\ all_user_filters = <<>>
    /\ trades = <<>> /\ new_fills = <<>> /\ fill_groups = <<>>
    /\ aggregated_trades = <<>> /\ match_i = 1 /\ queue = <<>>
    /\ lastEnq = <<>> /\ enqCount = <<>> /\ live_at_dedup = {}
    /\ cyc = <<>> /\ cycles = 0 /\ crashes = 0
    /\ reloadSignal = FALSE /\ filterStore = <<>> /\ last_filter_reload = 0
    /\ reload_reason = "" /\ saves = 0 /\ feed = {}

DedupIdle == check_result = NoCheck
AggIdle   == agg_in = <<>> /\ agg_out = <<>> /\ agg_done = FALSE
FltIdle   == flt_in = <<>> /\ flt_out = FALSE /\ flt_done = FALSE
MuIdle    == mu_in = <<>> /\ mu_out = <<>> /\ mu_done = FALSE
LoadIdle  == whaleAlertConfigs = <<>> /\ load = <<>>
ConsIdle  == nq = <<>> /\ cons = <<>> /\ hist = <<>> /\ telegramAccounts = <<>>
             /\ life = <<>>

(***************************************************************************)
(* The clock and the TTL monitor of the store                              *)
(***************************************************************************)
Tick ==
    /\ now + TimeStep <= MaxTime
    /\ now' = now + TimeStep
    /\ UNCHANGED <<processedTrades, lastMark>>

Reap ==
    /\ \E k \in FillKeys : processedTrades[k] # NoDoc /\ processedTrades[k] <= now
    /\ processedTrades' = ReapExpired(processedTrades)
    /\ UNCHANGED <<now, lastMark>>

(***************************************************************************)
(* SpecDedup: the deduplication store driven directly                      *)
(***************************************************************************)
TtlChoices == {TimeStep, DefaultTtlMinutes}

DedupMark(k, t) ==
    /\ processedTrades' = mark_trade_as_processed(processedTrades, k, t)
    /\ lastMark' = [lastMark EXCEPT ![k] = [at |-> now, ttl |-> t]]
    /\ UNCHANGED <<now, check_result>>

DedupCheck(k) ==
    /\ check_result' = [key |-> k, at |-> now, result |-> is_trade_processed(k),
                        mark |-> lastMark[k], stored |-> processedTrades[k] # NoDoc]
    /\ UNCHANGED <<processedTrades, now, lastMark>>

DedupTick == Tick /\ UNCHANGED check_result
DedupReap == Reap /\ UNCHANGED check_result

InitDedup == StoreInit /\ DedupIdle /\ PollIdle /\ AggIdle /\ FltIdle /\ MuIdle /\ LoadIdle /\ ConsIdle

NextDedup ==
    \/ \E k \in FillKeys, t \in TtlChoices : DedupMark(k, t) /\ UNCHANGED <<pollVars, aggVars, fltVars, muVars, loadVars, consVars>>
    \/ \E k \in FillKeys : DedupCheck(k) /\ UNCHANGED <<pollVars, aggVars, fltVars, muVars, loadVars, consVars>>
    \/ DedupTick /\ UNCHANGED <<pollVars, aggVars, fltVars, muVars, loadVars, consVars>>
    \/ DedupReap /\ UNCHANGED <<pollVars, aggVars, fltVars, muVars, loadVars, consVars>>

SpecDedup == InitDedup /\ [][NextDedup]_vars

(***************************************************************************)
(* SpecAgg: grouping and folding a batch of new fills                      *)
(***************************************************************************)
AggFills ==
    AllTrades \cup {Trade("t2", "0xab", "SELL", 3, 30, None, "No", 1),
                    Trade("t2", "0xab", "SELL", 2, 30, "",   "No", 4)}

\* batches as deduplication leaves them: no two fills with the same fill key
AggBatches ==
    {b \in SeqsUpTo(AggFills, MaxBatch) :
        \A i, j \in DOMAIN b : i # j => get_fill_key(b[i]) # get_fill_key(b[j])}

Aggregate ==
    /\ ~agg_done
    /\ agg_out' = AggregateFills(agg_in)
    /\ agg_done' = TRUE
    /\ UNCHANGED agg_in

InitAgg ==
    /\ agg_in \in AggBatches /\ agg_out = <<>> /\ agg_done = FALSE
    /\ StoreInit /\ DedupIdle /\ PollIdle /\ FltIdle /\ MuIdle /\ LoadIdle /\ ConsIdle

NextAgg == Aggregate /\ UNCHANGED <<pollVars, storeVars, dedupVars, fltVars, muVars, loadVars, consVars>>

SpecAgg == InitAgg /\ [][NextAgg]_vars

(***************************************************************************)
(* SpecVwap: AggregatedTrade.from_fills in the arithmetic of Python floats *)
(* (IEEE 754 binary64, round to nearest even), where from_fills above      *)
(* computes in exact fractions.                                            *)
(*                                                                         *)
(* A natural number of any size is the sequence of its digits in base      *)
(* Base, the least significant first and the last one not 0 (zero is       *)
(* <<>>).  A positive float is [m, e] with m a number of exactly           *)
(* MantissaBits bits, its value m * 2^e; 0.0 is DZero.  Sizes and prices   *)
(* are far from the subnormal and the overflow range, which are left out.  *)
(***************************************************************************)
MantissaBits == 53
\* a mantissa takes four digits; the product of two digits and the sum of
\* four such products stay below 2^31
DigitBits == MantissaBits \div 4 + 1
Base == 2^DigitBits

\* F of the value of v, the value worked out before F is
Strict(v, F(_)) == CHOOSE r \in {F(x) : x \in {v}} : TRUE

\* the digits without the zeros at the most significant end
LNorm(a) ==
    LET nz == {i \in DOMAIN a : a[i] # 0}
    IN  IF nz = {} THEN <<>>
        ELSE SubSeq(a, 1, CHOOSE i \in nz : \A j \in nz : j <= i)

\* the number of the columns c (any integers) once the carries are passed on
RECURSIVE Carry(_, _)
Carry(c, carry) ==
    IF c = <<>>
    THEN IF carry = 0 THEN <<>> ELSE <<carry % Base>> \o Carry(c, carry \div Base)
    ELSE LET t == c[1] + carry
         IN  <<t % Base>> \o Carry(Tail(c), t \div Base)

Digit(a, i) == IF i \in DOMAIN a THEN a[i] ELSE 0

LAdd(a, b) ==
    LET n == IF Len(a) > Len(b) THEN Len(a) ELSE Len(b)
    IN  LNorm(Carry([i \in 1..n |-> Digit(a, i) + Digit(b, i)], 0))

\* a - b for a >= b
LSub(a, b) == LNorm(Carry([i \in 1..Len(a) |-> a[i] - Digit(b, i)], 0))

LLess(a, b) ==
    \/ Len(a) < Len(b)
    \/ /\ Len(a) = Len(b)
       /\ \E i \in DOMAIN a : a[i] < b[i] /\ \A j \in (i + 1)..Len(a) : a[j] = b[j]

\* the sum of a[i] * b[k + 1 - i] from i on
RECURSIVE Column(_, _, _, _)
Column(a, b, k, i) ==
    IF i > Len(a) \/ i > k THEN 0
    ELSE Digit(a, i) * Digit(b, k + 1 - i) + Column(a, b, k, i + 1)

LMul(a, b) ==
    IF a = <<>> \/ b = <<>> THEN <<>>
    ELSE LNorm(Carry([k \in 1..(Len(a) + Len(b) - 1) |-> Column(a, b, k, 1)], 0))

\* a * 2^k and the whole part of a / 2^k
Shl(a, k) == LMul(a, [i \in 1..(k \div DigitBits + 1) |->
                        IF i = k \div DigitBits + 1 THEN 2^(k % DigitBits) ELSE 0])

Shr(a, k) ==
    LET ls == k \div DigitBits
        bs == k % DigitBits
    IN  LNorm([i \in 1..(Len(a) - ls) |->
                 (a[i + ls] \div 2^bs) + (Digit(a, i + ls + 1) % 2^bs) * 2^(DigitBits - bs)])

\* a is not a multiple of 2^k
LowBits(a, k) ==
    \/ \E i \in 1..(k \div DigitBits) : Digit(a, i) # 0
    \/ Digit(a, k \div DigitBits + 1) % 2^(k % DigitBits) # 0

BitLen(a) ==
    IF a = <<>> THEN 0
    ELSE DigitBits * (Len(a) - 1)
           + CHOOSE k \in 1..DigitBits : 2^(k - 1) <= a[Len(a)] /\ a[Len(a)] < 2^k

\* the q < Base with q * d <= r < (q + 1) * d, for r < Base * d and the
\* last digit of d at least Base / 2: at most 2 below the quotient of the
\* leading digits
QuotDigit(r, d) ==
    LET n     == Len(d)
        guess == (Digit(r, n + 1) * Base + Digit(r, n)) \div d[n]
        top   == IF guess < Base THEN guess ELSE Base - 1
    IN  CHOOSE q \in {c \in (top - 2)..top : c >= 0} :
            /\ ~LLess(r, LMul(d, <<q>>))
            /\ LLess(r, LMul(d, <<q + 1>>))

\* one digit more of the division by d: the quotient and remainder p of the
\* digits above, and the next digit
DivStep(p, digit, d) ==
    LET r  == LNorm(<<digit>> \o p.r)
        qd == QuotDigit(r, d)
    IN  [q |-> LNorm(<<qd>> \o p.q), r |-> LSub(r, LMul(d, <<qd>>))]

\* quotient and remainder of n by d, the last digit of d at least Base / 2
RECURSIVE LDivMod(_, _)
LDivMod(n, d) ==
    IF Len(n) < Len(d) THEN [q |-> <<>>, r |-> LNorm(n)]
    ELSE Strict(LDivMod(Tail(n), d), LAMBDA p : DivStep(p, n[1], d))

LFromInt(n) == LNorm(Carry(<<n>>, 0))

DZero == [m |-> <<>>, e |-> 0]

\* x * 2^e (with something more below the last bit of x when sticky) rounded
\* to MantissaBits bits, to nearest and to even on a tie; x has more bits
Round(x, e, sticky) ==
    LET s       == BitLen(x) - MantissaBits
        below   == sticky \/ LowBits(x, s - 1)
        RoundUp(kept1) == kept1[1] % 2 = 1 /\ (below \/ (kept1[1] \div 2) % 2 = 1)
        Rounded(kept1) == Shr(IF RoundUp(kept1) THEN LAdd(kept1, <<1>>) ELSE kept1, 1)
    IN  Strict(Strict(Shr(x, s - 1), Rounded),
               LAMBDA m : IF BitLen(m) > MantissaBits
                          THEN [m |-> Shr(m, 1), e |-> e + s + 1]
                          ELSE [m |-> m, e |-> e + s])

\* float(n) of an int n
FromInt(n) ==
    IF n = 0 THEN DZero
    ELSE Strict(LFromInt(n), LAMBDA b :
             [m |-> Shl(b, MantissaBits - BitLen(b)), e |-> BitLen(b) - MantissaBits])

\* x * y
fmul(x, y) ==
    IF x = DZero \/ y = DZero THEN DZero
    ELSE Strict(LMul(x.m, y.m), LAMBDA product : Round(product, x.e + y.e, FALSE))

\* x / y, y # 0.0
fdiv(x, y) ==
    IF x = DZero THEN DZero
    ELSE LET scale == DigitBits * Len(y.m) - MantissaBits
         IN  Strict(LDivMod(Shl(x.m, MantissaBits + 1 + scale), Shl(y.m, scale)),
                    LAMBDA d : Round(d.q, x.e - y.e - (MantissaBits + 1), d.r # <<>>))

\* x + y
fadd(x, y) ==
    IF x = DZero THEN y
    ELSE IF y = DZero THEN x
    ELSE LET e == IF x.e < y.e THEN x.e ELSE y.e
         IN  Strict(LAdd(Shl(x.m, x.e - e), Shl(y.m, y.e - e)),
                    LAMBDA sum : Round(sum, e, FALSE))

\* float(item.get("price")) of a price of so many hundredths in the row:
\* the float nearest to cents / 100
ToDouble(cents) == fdiv(FromInt(cents), FromInt(100))

\* sum(... for fill in fills): from the int 0, left to right
RECURSIVE fsum(_, _)
fsum(acc, terms) ==
    IF terms = <<>> THEN acc ELSE fsum(fadd(acc, Head(terms)), Tail(terms))

ValueError == "ValueError: Cannot aggregate empty list of fills"

\* the outcome of a call: the exception raised ("" when none) and the
\* value returned (none when the call raised)
Raised(exception) == [raised |-> exception, returned |-> <<>>]
Returned(value)   == [raised |-> "", returned |-> <<value>>]

\* a trade of nothing in place of the error
EmptyFills_ZeroTrade ==
    Returned([transaction_hash |-> None, proxy_wallet |-> None, condition_id |-> None,
              outcome |-> None, side |-> None, total_size |-> DZero,
              total_notional_usd |-> DZero, vwap_price |-> DZero, timestamp |-> 0,
              fill_count |-> 0])

\* if not fills: raise ValueError(...)
EmptyFills == Raised(ValueError)

from_fills_binary64(fills) ==
    IF fills = <<>> THEN EmptyFills
    ELSE
    LET first_fill     == fills[1]
        total_size     == fsum(DZero, [i \in DOMAIN fills |-> fills[i].size])
        total_notional == fsum(DZero, [i \in DOMAIN fills |-> fmul(fills[i].size, fills[i].price)])
        vwap_price     == IF total_size # DZero THEN fdiv(total_notional, total_size) ELSE DZero
        max_timestamp  == MaxTimestamp(fills)
    IN  Returned([transaction_hash   |-> first_fill.transaction_hash,
                  proxy_wallet       |-> first_fill.proxy_wallet,
                  condition_id       |-> first_fill.condition_id,
                  outcome            |-> first_fill.outcome,
                  side               |-> first_fill.side,
                  total_size         |-> total_size,
                  total_notional_usd |-> total_notional,
                  vwap_price         |-> vwap_price,
                  timestamp          |-> max_timestamp,
                  fill_count         |-> Len(fills)])

MaxVwapSize == 9      \* sizes 1..MaxVwapSize of the fills of SpecVwap
VwapCents == {1, 3, 10, 33, 50, 99}

\* fills of one aggregation key
VwapFills ==
    {Trade("t1", "0xab", "BUY", FromInt(size), ToDouble(cents), "c1", "Yes", 1) :
        size \in 1..MaxVwapSize, cents \in VwapCents}

\* the empty list, the partitions of one fill, and partitions of two fills
VwapInputs ==
    {<<>>} \cup {<<fill>> : fill \in VwapFills}
           \cup {<<fill, Trade("t1", "0xab", "BUY", FromInt(2), ToDouble(50), "c1", "Yes", 2)>> :
                    fill \in VwapFills}

FromFills ==
    /\ ~agg_done
    /\ agg_out' = from_fills_binary64(agg_in)
    /\ agg_done' = TRUE
    /\ UNCHANGED agg_in

InitVwap ==
    /\ agg_in \in VwapInputs /\ agg_out = <<>> /\ agg_done = FALSE
    /\ StoreInit /\ DedupIdle /\ PollIdle /\ FltIdle /\ MuIdle /\ LoadIdle /\ ConsIdle

NextVwap == FromFills /\ UNCHANGED <<pollVars, storeVars, dedupVars, fltVars, muVars, loadVars, consVars>>

SpecVwap == InitVwap /\ [][NextVwap]_vars

(***************************************************************************)
(* SpecFilter: the match predicate on trade / market / filter triples      *)
(***************************************************************************)
TradeA1 == RowToTrade(RowA1)
TradeA2  == RowToTrade(RowA2)
TradeB   == RowToTrade(RowB)

FltTrades == {from_fills(<<TradeA1, TradeA2>>), from_fills(<<TradeA2>>), from_fills(<<TradeB>>)}

MarketPolitics == MarketMetadata("c1", "politics", <<"tg1">>, FALSE, <<"Politics">>)
MarketSports   == MarketMetadata("c2", "sports",   <<"tg2">>, TRUE,  <<"Sports">>)
MarketCrypto   == MarketMetadata("c2", "crypto",   <<"tg3">>, FALSE, <<"Crypto">>)
MarketBare     == MarketMetadata("c1", None,       <<>>,      FALSE, <<>>)

MarketFinance  == MarketMetadata("c1", None,       <<"tg4">>, FALSE, <<"Finance">>)

MarketBoth     == MarketMetadata("c2", "politics", <<"tg1", "tg3">>, FALSE, <<"Crypto", "Politics">>)

FltMarkets == {MarketPolitics, MarketSports, MarketCrypto, MarketBare, MarketFinance, MarketBoth}

\* excludeCategories lists of walletFilters documents without selectedCategories
ExcludeLists ==
    {<<"Sports">>, <<"politics">>, <<" Crypto ">>, <<"Finance">>, <<"Weather">>,
     <<"Politics", "Sports">>, all_categories}

\* the filters get_all_user_filters makes of such documents, every other
\* field letting all trades through
FltMigrated ==
    {UserFilter("u1", 0, 5, 95, <<"BUY", "SELL">>, <<>>, <<>>, ex,
                load_selected_categories(<<>>, ex), TRUE, "chat1") : ex \in ExcludeLists}

FltFilters ==
    {UserFilter("u1", mn, pr[1], pr[2], sd, mf, cf, ex, sel, en, "chat1") :
        mn \in {0, 100}, pr \in {<<5, 95>>, <<45, 95>>},
        sd \in {<<"BUY">>, <<"BUY", "SELL">>}, mf \in {<<>>, <<"c1">>},
        cf \in {<<>>, <<"tg1">>}, ex \in {<<>>, <<"Sports">>},
        sel \in {<<>>, <<"Politics">>}, en \in BOOLEAN}

FltInputs == [trade : FltTrades, market : FltMarkets, filter : FltFilters \cup FltMigrated]

Evaluate ==
    /\ ~flt_done
    /\ flt_out' = aggregated_trade_matches_user_filter(flt_in.trade, flt_in.market, flt_in.filter)
    /\ flt_done' = TRUE
    /\ UNCHANGED flt_in

InitFilter ==
    /\ flt_in \in FltInputs /\ flt_out = FALSE /\ flt_done = FALSE
    /\ StoreInit /\ DedupIdle /\ PollIdle /\ AggIdle /\ MuIdle /\ LoadIdle /\ ConsIdle

NextFilter == Evaluate /\ UNCHANGED <<pollVars, storeVars, dedupVars, aggVars, muVars, loadVars, consVars>>

SpecFilter == InitFilter /\ [][NextFilter]_vars

(***************************************************************************)
(* SpecMatch: get_matching_users_for_aggregated_trade on filter lists      *)
(***************************************************************************)
\* filter lists over four users: two that take every trade, one that wants
\* large BUY trades, one that is disabled
MuInputs ==
    LET f(u, min, lo, hi, sides, on) ==
            UserFilter(u, min, lo, hi, sides, <<>>, <<>>, <<>>, <<>>, on, "chat-" \o u)
        filters == {f("u1", 0, 0, 100, <<"BUY", "SELL">>, TRUE),
                    f("u2", 100, 5, 95, <<"BUY">>, TRUE),
                    f("u3", 0, 0, 100, <<"BUY", "SELL">>, TRUE),
                    f("u4", 0, 0, 100, <<"BUY", "SELL">>, FALSE)}
    IN  [trade : FltTrades, market : {MarketPolitics, MarketSports},
         filters : SeqsUpTo(filters, MaxFilters)]

MatchAll ==
    /\ ~mu_done
    /\ mu_out' = get_matching_users_for_aggregated_trade(mu_in.trade, mu_in.market, mu_in.filters)
    /\ mu_done' = TRUE
    /\ UNCHANGED mu_in

InitMatch ==
    /\ mu_in \in MuInputs /\ mu_out = <<>> /\ mu_done = FALSE
    /\ StoreInit /\ DedupIdle /\ PollIdle /\ AggIdle /\ FltIdle /\ LoadIdle /\ ConsIdle

NextMatch == MatchAll /\ UNCHANGED <<pollVars, storeVars, dedupVars, aggVars, fltVars, consVars, loadVars>>

SpecMatch == InitMatch /\ [][NextMatch]_vars

(***************************************************************************)
(* Spec: the poll loop of run_worker, the stores it writes, and the        *)
(* producer side of the notification queue.  The market cache (24 h) does  *)
(* not expire within MaxTime.                                              *)
(*                                                                         *)
(* The filter configuration is changed from outside (the web application,  *)
(* not in this repository): a save replaces what get_all_user_filters      *)
(* reads and inserts the reload signal.  The loop reads the signal only at *)
(* the check and the filters only at the re-read, so a save is taken at    *)
(* the points where its order against these reads differs.  Saves happen   *)
(* in SpecReload.                                                          *)
(*                                                                         *)
(* Init is the worker at the top of its first iteration (main.py 118).     *)
(* The start-up code before the loop reads                                 *)
(* config.FILTER_RELOAD_INTERVAL_SECONDS (main.py 104), which config.py    *)
(* does not define; the loop is modelled as entered, with the attribute    *)
(* supplied.                                                               *)
(*                                                                         *)
(* A cycle is short against the TTL: the clock moves only while the loop   *)
(* sleeps or the process is down.  The TTL monitor is left to SpecDedup:   *)
(* is_trade_processed ignores expired documents, so whether the monitor    *)
(* has removed them is not visible to the loop.                            *)
(***************************************************************************)
FilterAll == UserFilter("u1", 0,   0, 100, <<"BUY", "SELL">>, <<>>, <<>>, <<>>, <<>>, TRUE, "chat1")
FilterBig == UserFilter("u2", 100, 5, 95,  <<"BUY">>,         <<>>, <<>>, <<>>, <<>>, TRUE, "chat2")

\* db.py get_all_user_filters(): the enabled configs with an active chat
get_all_user_filters == filterStore

\* db.py check_filter_reload_signal(): find_one({'_id': 'global'}) is not None
check_filter_reload_signal == reloadSignal

\* config.FILTER_RELOAD_INTERVAL_SECONDS, on the model's clock
filter_reload_interval == 20

UserIds == {FilterAll.user_id, FilterBig.user_id}

\* what the Gamma API knows about a condition id
MarketOf(condition_id) ==
    CASE condition_id = "c1" -> MarketPolitics
      [] condition_id = "c2" -> MarketSports

NewCycle ==
    [start_marker |-> last_marker, start_store |-> cursorStore,
     writes |-> 0, matched_at_write |-> -1, exception |-> FALSE, reload |-> "none",
     failed_reload |-> "no"]

NoCycle ==
    [start_marker |-> NoMarker, start_store |-> NoMarker,
     writes |-> 0, matched_at_write |-> -1, exception |-> FALSE, reload |-> "none",
     failed_reload |-> "no"]

InitPoll ==
    /\ pc = "start"
    /\ cursorStore = NoMarker
    /\ last_marker = get_last_processed_trade_marker
    /\ marketCache = {}
    /\ filterStore = <<FilterAll, FilterBig>> /\ reloadSignal = FALSE /\ saves = 0
    /\ all_user_filters = get_all_user_filters
    /\ last_filter_reload = 0 /\ reload_reason = ""
    /\ trades = <<>> /\ new_fills = <<>> /\ fill_groups = <<>>
    /\ aggregated_trades = <<>> /\ match_i = 1 /\ queue = <<>>
    /\ lastEnq = [x \in FillKeys \X UserIds |-> -1]
    /\ enqCount = [x \in AggKeys \X UserIds |-> 0]
    /\ live_at_dedup = {}
    /\ cyc = NoCycle /\ cycles = 0 /\ crashes = 0

\* the Data API may answer with any list of up to MAX_TRADES_PER_POLL rows
Init == InitPoll /\ feed = FetchResults /\ StoreInit /\ DedupIdle /\ AggIdle /\ FltIdle /\ MuIdle /\ LoadIdle /\ ConsIdle

\* while True: poll_count += 1, and the check whether to reload
\* (main.py 118-135)
StartCycle ==
    /\ pc = "start"
    /\ cycles < MaxCycles
    /\ cycles' = cycles + 1
    /\ cyc' = [NewCycle EXCEPT !.failed_reload =
                                  IF cyc.failed_reload = "this" THEN "previous" ELSE "no"]
    /\ reload_reason' = IF check_filter_reload_signal THEN "settings changed"
                        ELSE IF now - last_filter_reload >= filter_reload_interval
                             THEN "periodic refresh" ELSE ""
    /\ pc' = IF reload_reason' # "" THEN "reread" ELSE "fetch"
    /\ UNCHANGED <<last_marker, all_user_filters, trades, new_fills, fill_groups,
                   aggregated_trades, match_i, queue, cursorStore, marketCache,
                   lastEnq, enqCount, live_at_dedup, crashes, storeVars,
                   reloadSignal, filterStore, last_filter_reload, saves, feed>>

\* the process ends: nothing in memory is left
Exit(how) ==
    /\ pc' = how
    /\ last_marker' = NoMarker /\ all_user_filters' = <<>>
    /\ trades' = <<>> /\ new_fills' = <<>> /\ fill_groups' = <<>>
    /\ aggregated_trades' = <<>> /\ match_i' = 1 /\ queue' = <<>> /\ live_at_dedup' = {}
    /\ cyc' = NoCycle /\ last_filter_reload' = 0 /\ reload_reason' = ""
    /\ UNCHANGED <<cursorStore, marketCache, lastEnq, enqCount, cycles, crashes, storeVars,
                   reloadSignal, filterStore, saves, feed>>

\* check_filter_reload_signal() raises: the call is outside the try blocks
\* of the iteration, the handler of the outer try prints "Fatal error",
\* stops the queue and re-raises (main.py 129, 363-370)
ReloadCheckFails ==
    /\ pc = "start"
    /\ Exit("fatal")

\* the re-read list is dropped and the old one kept
ReRead_KeepsOld ==
    /\ pc = "reread"
    /\ last_filter_reload' = now
    /\ cyc' = [cyc EXCEPT !.reload = "ok", !.failed_reload = "no"]
    /\ pc' = IF reload_reason = "settings changed" THEN "clear" ELSE "fetch"
    /\ reload_reason' = IF pc' = "clear" THEN reload_reason ELSE ""
    /\ UNCHANGED <<last_marker, all_user_filters, trades, new_fills, fill_groups,
                   aggregated_trades, match_i, queue, cursorStore, marketCache,
                   lastEnq, enqCount, live_at_dedup, cycles, crashes, storeVars,
                   reloadSignal, filterStore, saves, feed>>

\* new_filters = get_all_user_filters(); all_user_filters = new_filters;
\* last_filter_reload = current_time (main.py 139-163)
ReRead ==
    /\ pc = "reread"
    /\ all_user_filters' = get_all_user_filters
    /\ last_filter_reload' = now
    /\ cyc' = [cyc EXCEPT !.reload = "ok", !.failed_reload = "no"]
    /\ pc' = IF reload_reason = "settings changed" THEN "clear" ELSE "fetch"
    /\ reload_reason' = IF pc' = "clear" THEN reload_reason ELSE ""
    /\ UNCHANGED <<last_marker, trades, new_fills, fill_groups,
                   aggregated_trades, match_i, queue, cursorStore, marketCache,
                   lastEnq, enqCount, live_at_dedup, cycles, crashes, storeVars,
                   reloadSignal, filterStore, saves, feed>>

\* the handler of the reload leaves an empty filter list
ReReadFails_Empty ==
    /\ pc = "reread"
    /\ all_user_filters' = <<>>
    /\ cyc' = [cyc EXCEPT !.reload = "failed", !.failed_reload = "this"]
    /\ pc' = "fetch" /\ reload_reason' = ""
    /\ UNCHANGED <<last_marker, trades, new_fills, fill_groups,
                   aggregated_trades, match_i, queue, cursorStore, marketCache,
                   lastEnq, enqCount, live_at_dedup, cycles, crashes, storeVars,
                   reloadSignal, filterStore, last_filter_reload, saves, feed>>

\* the failed reload counts as the latest reload
ReReadFails_ResetsTimer ==
    /\ pc = "reread"
    /\ cyc' = [cyc EXCEPT !.reload = "failed", !.failed_reload = "this"]
    /\ last_filter_reload' = now
    /\ pc' = "fetch" /\ reload_reason' = ""
    /\ UNCHANGED <<last_marker, all_user_filters, trades, new_fills, fill_groups,
                   aggregated_trades, match_i, queue, cursorStore, marketCache,
                   lastEnq, enqCount, live_at_dedup, cycles, crashes, storeVars,
                   reloadSignal, filterStore, saves, feed>>

\* get_all_user_filters() raises: "using cached filters" (main.py 140, 179-180)
ReReadFails ==
    /\ pc = "reread"
    /\ cyc' = [cyc EXCEPT !.reload = "failed", !.failed_reload = "this"]
    /\ pc' = "fetch" /\ reload_reason' = ""
    /\ UNCHANGED <<last_marker, all_user_filters, trades, new_fills, fill_groups,
                   aggregated_trades, match_i, queue, cursorStore, marketCache,
                   lastEnq, enqCount, live_at_dedup, cycles, crashes, storeVars,
                   reloadSignal, filterStore, last_filter_reload, saves, feed>>

\* clear_filter_reload_signal(): delete_one({'_id': 'global'}) (main.py 166-167)
ClearSignal ==
    /\ pc = "clear"
    /\ reloadSignal' = FALSE
    /\ cyc' = [cyc EXCEPT !.reload = "cleared"]
    /\ pc' = "fetch" /\ reload_reason' = ""
    /\ UNCHANGED <<last_marker, all_user_filters, trades, new_fills, fill_groups,
                   aggregated_trades, match_i, queue, cursorStore, marketCache,
                   lastEnq, enqCount, live_at_dedup, cycles, crashes, storeVars,
                   filterStore, last_filter_reload, saves, feed>>

\* clear_filter_reload_signal() raises: the filters are already replaced,
\* the handler of the reload prints and the cycle goes on (main.py 167, 179-180)
ClearSignalFails ==
    /\ pc = "clear"
    /\ cyc' = [cyc EXCEPT !.reload = "clear failed"]
    /\ pc' = "fetch" /\ reload_reason' = ""
    /\ UNCHANGED <<last_marker, all_user_filters, trades, new_fills, fill_groups,
                   aggregated_trades, match_i, queue, cursorStore, marketCache,
                   lastEnq, enqCount, live_at_dedup, cycles, crashes, storeVars,
                   reloadSignal, filterStore, last_filter_reload, saves, feed>>

\* a user saves settings: the stored configuration changes (both users
\* enabled, or u2 with alerts off) and the signal document is inserted
SaveSettings ==
    /\ pc \in {"start", "reread", "clear", "down"}
    /\ saves < MaxSaves
    /\ saves' = saves + 1
    /\ \E saved \in {<<FilterAll, FilterBig>>, <<FilterAll>>} \ {filterStore} : filterStore' = saved
    /\ reloadSignal' = TRUE
    /\ UNCHANGED <<pc, last_marker, all_user_filters, trades, new_fills, fill_groups,
                   aggregated_trades, match_i, queue, cursorStore, marketCache,
                   lastEnq, enqCount, live_at_dedup, cyc, cycles, crashes, storeVars,
                   last_filter_reload, reload_reason, feed>>

\* KeyboardInterrupt: re-raised by the iteration, taken by the outer try,
\* which stops the queue and returns (main.py 344-345, 355-362)
Shutdown ==
    /\ pc \notin {"down", "off", "fatal", "stopped"}
    /\ Exit("stopped")

\* trades = fetch_recent_trades(...) (main.py 184-192)
Fetch ==
    /\ pc = "fetch"
    /\ \E result \in feed :
          /\ trades' = result
          /\ pc' = IF Len(trades') = 0 THEN "sleep" ELSE "dedup"
    /\ cyc' = [cyc EXCEPT !.reload = "none"]
    /\ UNCHANGED <<reloadVars, last_marker, all_user_filters, new_fills, fill_groups,
                   aggregated_trades, match_i, queue, cursorStore, marketCache,
                   lastEnq, enqCount, live_at_dedup, cycles, crashes, storeVars>>

\* the loop stopped at the first new fill of the marker's transaction
RECURSIVE DedupLoop_StopAtCursor(_, _, _)
DedupLoop_StopAtCursor(fills, marker, found) ==
    IF fills = <<>> THEN found
    ELSE LET fill == Head(fills)
         IN  IF is_trade_processed(get_fill_key(fill))
             THEN DedupLoop_StopAtCursor(Tail(fills), marker, found)
             ELSE IF /\ marker # NoMarker /\ ~Falsy(marker.last_processed_tx_hash)
                     /\ fill.transaction_hash = marker.last_processed_tx_hash
                  THEN [found EXCEPT !.seen_cursor = TRUE]
                  ELSE DedupLoop_StopAtCursor(Tail(fills), marker,
                           [found EXCEPT !.new_fills = Append(@, fill)])

\* for fill in trades (main.py 201-216): the fills not yet processed, and
\* whether the marker's transaction was among them
RECURSIVE DedupLoop(_, _, _)
DedupLoop(fills, marker, found) ==
    IF fills = <<>> THEN found
    ELSE LET fill == Head(fills)
         IN  IF is_trade_processed(get_fill_key(fill))
             THEN DedupLoop(Tail(fills), marker, found)
             ELSE DedupLoop(Tail(fills), marker,
                      [new_fills   |-> Append(found.new_fills, fill),
                       seen_cursor |-> \/ found.seen_cursor
                                       \/ /\ marker # NoMarker
                                          /\ ~Falsy(marker.last_processed_tx_hash)
                                          /\ fill.transaction_hash = marker.last_processed_tx_hash])

NoneFound == [new_fills |-> <<>>, seen_cursor |-> FALSE]

\* Step 1, fill-level deduplication, and the grouping of Step 2 (main.py 198-235)
Dedup ==
    /\ pc = "dedup"
    /\ new_fills' = DedupLoop(trades, last_marker, NoneFound).new_fills
    /\ live_at_dedup' = {k \in FillKeys : lastMark[k].at # -1 /\ now < lastMark[k].at + lastMark[k].ttl}
    /\ fill_groups' = GroupFills(new_fills')
    /\ aggregated_trades' = <<>>
    /\ pc' = IF new_fills' = <<>> THEN "advance" ELSE "aggregate"
    /\ UNCHANGED <<reloadVars, last_marker, all_user_filters, trades, match_i, queue, cursorStore,
                   marketCache, lastEnq, enqCount, cyc, cycles, crashes,
                   storeVars>>

\* only the first fill of the group is marked
MarkAll_FirstOnly(store, fills) ==
    mark_trade_as_processed(store, get_fill_key(Head(fills)), DefaultTtlMinutes)

\* for fill in fills: mark_trade_as_processed(fill.get_fill_key()) (main.py 241-243)
RECURSIVE MarkAll(_, _)
MarkAll(store, fills) ==
    IF fills = <<>> THEN store
    ELSE MarkAll(mark_trade_as_processed(store, get_fill_key(Head(fills)), DefaultTtlMinutes),
                 Tail(fills))

\* the fills are marked only when the market of the group is cached
MarkGroup_IfCached ==
    /\ pc = "aggregate"
    /\ LET i     == Len(aggregated_trades) + 1
           fills == fill_groups[i].fills
           known == fills[1].condition_id \in marketCache
       IN  /\ processedTrades' = IF known THEN MarkAll(processedTrades, fills)
                                 ELSE processedTrades
           /\ lastMark' = [k \in FillKeys |->
                             IF known /\ \E j \in DOMAIN fills : get_fill_key(fills[j]) = k
                             THEN [at |-> now, ttl |-> DefaultTtlMinutes]
                             ELSE lastMark[k]]
           /\ aggregated_trades' = Append(aggregated_trades, from_fills(fills))
           /\ pc' = IF i = Len(fill_groups) THEN "enrich" ELSE "aggregate"
    /\ UNCHANGED <<reloadVars, now, last_marker, all_user_filters, trades, new_fills, fill_groups,
                   match_i, queue, cursorStore, marketCache, lastEnq, enqCount,
                   live_at_dedup, cyc, cycles, crashes>>

\* one round of the loop over fill_groups: mark the fills of the group,
\* then fold them into one trade (main.py 239-247)
MarkGroup ==
    /\ pc = "aggregate"
    /\ LET i     == Len(aggregated_trades) + 1
           fills == fill_groups[i].fills
       IN  /\ processedTrades' = MarkAll(processedTrades, fills)
           /\ lastMark' = [k \in FillKeys |->
                             IF \E j \in DOMAIN fills : get_fill_key(fills[j]) = k
                             THEN [at |-> now, ttl |-> DefaultTtlMinutes]
                             ELSE lastMark[k]]
           /\ aggregated_trades' = Append(aggregated_trades, from_fills(fills))
           /\ pc' = IF i = Len(fill_groups) THEN "enrich" ELSE "aggregate"
    /\ UNCHANGED <<reloadVars, now, last_marker, all_user_filters, trades, new_fills, fill_groups,
                   match_i, queue, cursorStore, marketCache, lastEnq, enqCount,
                   live_at_dedup, cyc, cycles, crashes>>

\* Step 3: the condition ids without a cached market are fetched in one
\* batch, which may find any part of them (main.py 253-280)
Enrich ==
    /\ pc = "enrich"
    /\ LET missing == {aggregated_trades[i].condition_id : i \in DOMAIN aggregated_trades}
                         \ ({None, ""} \cup marketCache)
       IN  \E batch_metadata \in SUBSET missing : marketCache' = marketCache \cup batch_metadata
    /\ match_i' = 1
    /\ pc' = "match"
    /\ UNCHANGED <<reloadVars, last_marker, all_user_filters, trades, new_fills, fill_groups,
                   aggregated_trades, queue, cursorStore, lastEnq, enqCount,
                   live_at_dedup, cyc, cycles, crashes, storeVars>>

\* notifications.py build_aggregated_trade_alert_message: what the text shows
AlertMessage(agg_trade, market) ==
    [market |-> market.condition_id, side |-> agg_trade.side,
     total_notional_usd |-> agg_trade.total_notional_usd,
     vwap_price |-> agg_trade.vwap_price, fill_count |-> agg_trade.fill_count]

\* a message is enqueued for a filter without a chat id as well
AlertsFor_AnyChat(agg_trade, market, matching_users) ==
    [i \in DOMAIN matching_users |->
        [chat_id |-> matching_users[i].telegram_chat_id,
         message |-> AlertMessage(agg_trade, market)]]

\* notifications.py send_alerts_for_aggregated_trade: the messages enqueued
AlertsFor(agg_trade, market, matching_users) ==
    LET with_chat == SelectSeq(matching_users, LAMBDA f : ~Falsy(f.telegram_chat_id))
    IN  [i \in DOMAIN with_chat |->
            [chat_id |-> with_chat[i].telegram_chat_id,
             message |-> AlertMessage(agg_trade, market)]]

\* one round of Step 4 / Step 5: match one aggregated trade and enqueue the
\* alerts (main.py 283-332)
MatchTrade ==
    /\ pc = "match"
    /\ LET agg_trade == aggregated_trades[match_i]
           has_market == ~Falsy(agg_trade.condition_id) /\ agg_trade.condition_id \in marketCache
           market == MarketOf(agg_trade.condition_id)
           matching_users == IF has_market
                             THEN get_matching_users_for_aggregated_trade(agg_trade, market, all_user_filters)
                             ELSE <<>>
           notified == {matching_users[i].user_id :
                           i \in {j \in DOMAIN matching_users : ~Falsy(matching_users[j].telegram_chat_id)}}
           fkeys == {get_fill_key(f) : f \in Range(fill_groups[match_i].fills)}
       IN  /\ queue' = IF has_market THEN queue \o AlertsFor(agg_trade, market, matching_users)
                       ELSE queue
           /\ lastEnq' = [x \in FillKeys \X UserIds |->
                            IF x[1] \in fkeys /\ x[2] \in notified THEN now ELSE lastEnq[x]]
           /\ enqCount' = [x \in AggKeys \X UserIds |->
                            IF x[1] = fill_groups[match_i].key /\ x[2] \in notified
                            THEN enqCount[x] + 1 ELSE enqCount[x]]
    /\ match_i' = match_i + 1
    /\ pc' = IF match_i = Len(aggregated_trades) THEN "advance" ELSE "match"
    /\ UNCHANGED <<reloadVars, last_marker, all_user_filters, trades, new_fills, fill_groups,
                   aggregated_trades, cursorStore, marketCache, live_at_dedup, cyc, cycles, crashes, storeVars>>

\* the marker also written, with no transaction, by a cycle without new trades
NextMarker_Always(aggs, marker) ==
    IF aggs # <<>>
    THEN [marker |-> TradeMarker(aggs[1].timestamp, aggs[1].transaction_hash), write |-> TRUE]
    ELSE [marker |-> TradeMarker(marker.last_processed_timestamp, None), write |-> TRUE]

\* the marker the cycle ends with, and whether it is written (main.py 335-340)
NextMarker(aggs, marker) ==
    IF aggs # <<>>
    THEN [marker |-> TradeMarker(aggs[1].timestamp, aggs[1].transaction_hash), write |-> TRUE]
    ELSE [marker |-> marker, write |-> FALSE]

\* set_last_processed_trade_marker succeeds (main.py 335-342)
Advance ==
    /\ pc = "advance"
    /\ LET m == NextMarker(aggregated_trades, last_marker)
       IN  /\ last_marker' = m.marker
           /\ cursorStore' = IF m.write THEN m.marker ELSE cursorStore
           /\ cyc' = IF m.write
                     THEN [cyc EXCEPT !.writes = @ + 1,
                                      !.matched_at_write =
                                          IF new_fills = <<>> THEN 0 ELSE match_i - 1]
                     ELSE cyc
    /\ pc' = "sleep"
    /\ UNCHANGED <<reloadVars, all_user_filters, trades, new_fills, fill_groups, aggregated_trades,
                   match_i, queue, marketCache, lastEnq, enqCount, live_at_dedup, cycles, crashes, storeVars>>

\* set_last_processed_trade_marker raises: the in-memory marker is already set
AdvanceWriteFails ==
    /\ pc = "advance"
    /\ NextMarker(aggregated_trades, last_marker).write
    /\ last_marker' = NextMarker(aggregated_trades, last_marker).marker
    /\ cyc' = [cyc EXCEPT !.exception = TRUE]
    /\ pc' = "sleep"
    /\ UNCHANGED <<reloadVars, all_user_filters, trades, new_fills, fill_groups, aggregated_trades,
                   match_i, queue, cursorStore, marketCache, lastEnq, enqCount,
                   live_at_dedup, cycles, crashes, storeVars>>

\* the handler of the iteration throws the queued notifications away
CycleException_DropsQueue ==
    /\ pc \in {"fetch", "dedup", "aggregate", "enrich", "match"}
    /\ cyc' = [cyc EXCEPT !.exception = TRUE, !.reload = "none"]
    /\ pc' = "sleep"
    /\ queue' = <<>>
    /\ UNCHANGED <<reloadVars, last_marker, all_user_filters, trades, new_fills, fill_groups,
                   aggregated_trades, match_i, cursorStore, marketCache,
                   lastEnq, enqCount, live_at_dedup, cycles, crashes,
                   storeVars>>

\* a network or database call of the step raises: except Exception (main.py 346-349)
CycleException ==
    /\ pc \in {"fetch", "dedup", "aggregate", "enrich", "match"}
    /\ cyc' = [cyc EXCEPT !.exception = TRUE, !.reload = "none"]
    /\ pc' = "sleep"
    /\ UNCHANGED <<reloadVars, last_marker, all_user_filters, trades, new_fills, fill_groups,
                   aggregated_trades, match_i, queue, cursorStore, marketCache,
                   lastEnq, enqCount, live_at_dedup, cycles, crashes,
                   storeVars>>

\* time.sleep(POLL_INTERVAL_SECONDS), then the top of the loop (main.py 351-353)
Sleep ==
    /\ pc = "sleep"
    /\ pc' = "start"
    /\ trades' = <<>> /\ new_fills' = <<>> /\ fill_groups' = <<>>
    /\ aggregated_trades' = <<>> /\ match_i' = 1 /\ live_at_dedup' = {}
    /\ cyc' = [NoCycle EXCEPT !.failed_reload = cyc.failed_reload] /\ reload_reason' = ""
    /\ UNCHANGED <<last_marker, all_user_filters, queue, cursorStore, marketCache,
                   lastEnq, enqCount, cycles, crashes, storeVars,
                   reloadSignal, filterStore, last_filter_reload, saves, feed>>

\* the process dies: everything in memory, the queue included, is gone
Crash ==
    /\ pc \notin {"down", "off", "fatal", "stopped"}
    /\ crashes < MaxCrashes
    /\ crashes' = crashes + 1
    /\ pc' = "down"
    /\ last_marker' = NoMarker /\ all_user_filters' = <<>>
    /\ trades' = <<>> /\ new_fills' = <<>> /\ fill_groups' = <<>>
    /\ aggregated_trades' = <<>> /\ match_i' = 1 /\ queue' = <<>> /\ live_at_dedup' = {}
    /\ cyc' = NoCycle /\ last_filter_reload' = 0 /\ reload_reason' = ""
    /\ UNCHANGED <<cursorStore, marketCache, lastEnq, enqCount, cycles, storeVars,
                   reloadSignal, filterStore, saves, feed>>

\* run_worker starts again: filters and marker are read from the store (main.py 99-107)
Restart ==
    /\ pc = "down"
    /\ all_user_filters' = get_all_user_filters
    /\ last_filter_reload' = now
    /\ last_marker' = get_last_processed_trade_marker
    /\ pc' = "start"
    /\ UNCHANGED <<trades, new_fills, fill_groups, aggregated_trades, match_i, queue,
                   cursorStore, marketCache, lastEnq, enqCount, live_at_dedup, cyc, cycles, crashes, storeVars,
                   reloadSignal, filterStore, reload_reason, saves, feed>>

\* time passes while the loop sleeps or the process is down
PollTick == pc \in {"sleep", "down"} /\ Tick /\ UNCHANGED pollVars

Next ==
    \/ StartCycle        /\ UNCHANGED <<dedupVars, aggVars, fltVars, muVars, loadVars, consVars>>
    \/ ReloadCheckFails  /\ UNCHANGED <<dedupVars, aggVars, fltVars, muVars, loadVars, consVars>>
    \/ ReRead            /\ UNCHANGED <<dedupVars, aggVars, fltVars, muVars, loadVars, consVars>>
    \/ ReReadFails       /\ UNCHANGED <<dedupVars, aggVars, fltVars, muVars, loadVars, consVars>>
    \/ Shutdown          /\ UNCHANGED <<dedupVars, aggVars, fltVars, muVars, loadVars, consVars>>
    \/ Fetch             /\ UNCHANGED <<dedupVars, aggVars, fltVars, muVars, loadVars, consVars>>
    \/ Dedup             /\ UNCHANGED <<dedupVars, aggVars, fltVars, muVars, loadVars, consVars>>
    \/ MarkGroup         /\ UNCHANGED <<dedupVars, aggVars, fltVars, muVars, loadVars, consVars>>
    \/ Enrich            /\ UNCHANGED <<dedupVars, aggVars, fltVars, muVars, loadVars, consVars>>
    \/ MatchTrade        /\ UNCHANGED <<dedupVars, aggVars, fltVars, muVars, loadVars, consVars>>
    \/ Advance           /\ UNCHANGED <<dedupVars, aggVars, fltVars, muVars, loadVars, consVars>>
    \/ AdvanceWriteFails /\ UNCHANGED <<dedupVars, aggVars, fltVars, muVars, loadVars, consVars>>
    \/ CycleException    /\ UNCHANGED <<dedupVars, aggVars, fltVars, muVars, loadVars, consVars>>
    \/ Sleep             /\ UNCHANGED <<dedupVars, aggVars, fltVars, muVars, loadVars, consVars>>
    \/ Crash             /\ UNCHANGED <<dedupVars, aggVars, fltVars, muVars, loadVars, consVars>>
    \/ Restart           /\ UNCHANGED <<dedupVars, aggVars, fltVars, muVars, loadVars, consVars>>
    \/ PollTick          /\ UNCHANGED <<dedupVars, aggVars, fltVars, muVars, loadVars, consVars>>

Spec == Init /\ [][Next]_vars

(***************************************************************************)
(* SpecReload: the same loop while users save settings.  The Data API      *)
(* answers with at most one trade, which keeps the cycles short; Spec is   *)
(* the loop with no save, where only the periodic refresh reloads.         *)
(***************************************************************************)
InitReload ==
    /\ InitPoll /\ feed = {result \in FetchResults : Len(result) <= 1}
    /\ StoreInit /\ DedupIdle /\ AggIdle /\ FltIdle /\ MuIdle /\ LoadIdle /\ ConsIdle

NextReload ==
    \/ Next
    \/ ClearSignal       /\ UNCHANGED <<dedupVars, aggVars, fltVars, muVars, loadVars, consVars>>
    \/ ClearSignalFails  /\ UNCHANGED <<dedupVars, aggVars, fltVars, muVars, loadVars, consVars>>
    \/ SaveSettings      /\ UNCHANGED <<dedupVars, aggVars, fltVars, muVars, loadVars, consVars>>

SpecReload == InitReload /\ [][NextReload]_vars

(***************************************************************************)
(* SpecQueue: notification_queue.py.  The worker thread takes messages     *)
(* from the queue while a producer enqueues up to MaxMessages of them.     *)
(*                                                                         *)
(* Times are in milliseconds and relative to the present: time.time() is   *)
(* 0 in every state, and a step that takes d ms moves every stored time d  *)
(* into the past.  A stored time further back than Horizon is kept at      *)
(* -Horizon: the code compares ages only with intervals shorter than that. *)
(* time.sleep(d) returns after d: a later return makes every age larger,   *)
(* and the worker only ever asks whether an age is large enough.  A        *)
(* request that is answered takes Latency, one that times out HttpTimeout. *)
(* The bot token is configured.                                            *)
(***************************************************************************)
global_min_interval   == 34       \* self.global_min_interval = 0.034
per_chat_min_interval == 1000     \* self.per_chat_min_interval = 1.0
max_retries           == 3        \* max_retries = 3
QueueGetTimeout       == 1000     \* self.queue.get(timeout=1.0)
HttpTimeout           == 10000    \* httpx.Client(timeout=10.0)
TimeoutBackoff        == 1000     \* time.sleep(1.0) after a timeout
maxsize               == 0        \* Queue(): no upper bound on the size

MaxMessages == 3     \* messages the producer enqueues
MaxIdle     == 1     \* waits of the worker on an empty queue
Latency     == 5     \* duration of a request that is answered

Horizon == per_chat_min_interval

Chats == {"chat1", "chat2"}

\* what one POST to sendMessage can end with
Outcomes == {"ok", "not ok", "429", "429 malformed", "403", "400", "http error",
             "timeout", "error"}

\* retry_after of a 429: parameters.retry_after, whole seconds, 1 when the
\* field is absent
RetryAfters == {1000, 3000}

\* a stored time after d more milliseconds
Past(t, d) == IF t - d < -Horizon THEN -Horizon ELSE t - d

NqAfter(d) ==
    [last_global_send |-> Past(nq.last_global_send, d),
     last_chat_send   |-> [c \in DOMAIN nq.last_chat_send |-> Past(nq.last_chat_send[c], d)]]

HistAfter(d) ==
    [hist EXCEPT !.prev_global_send = Past(hist.prev_global_send, d),
                 !.last_attempt = [c \in DOMAIN hist.last_attempt |->
                                      Past(hist.last_attempt[c], d)]]

\* queue.Queue.full() of a queue made with Queue(maxsize=1)
full_Bounded(q) == Len(q) >= 1

\* queue.Queue.full()
full(q) == maxsize > 0 /\ Len(q) >= maxsize

\* the locals of the worker between two messages
NoMessage ==
    [pc |-> "get", chat_id |-> "", message |-> 0, current_time |-> 0,
     sleep_time |-> 0, retry_count |-> 0, retry_after |-> -1]

\* what the worker is doing, as far as an enqueue could have to wait for it
Busy ==
    CASE cons.pc \in {"gsleep", "csleep"} -> {"throttle"}
      [] cons.pc = "rsleep"               -> {"retry"}
      [] cons.pc = "wait"                 -> {"send"}
      [] OTHER                            -> {}

\* enqueue(chat_id, message): self.queue.put((chat_id, message))
Enqueue(chat_id) ==
    /\ hist.produced < MaxMessages
    /\ ~full(queue)
    /\ queue' = Append(queue, [chat_id |-> chat_id, message |-> hist.produced + 1])
    /\ hist' = [hist EXCEPT !.produced = @ + 1, !.enq_during = @ \cup Busy]
    /\ UNCHANGED <<nq, cons, telegramAccounts, life>>

\* no message has been finished since the worker took the current one
NoDone ==
    [message |-> 0, chat_id |-> "", limits |-> 0, timeouts |-> 0, outcome |-> "",
     deactivations |-> <<>>, success |-> FALSE]

\* the worker takes the message enqueued last
Get_Newest ==
    /\ cons.pc = "get"
    /\ queue # <<>>
    /\ cons' = [cons EXCEPT !.pc = "limit", !.chat_id = queue[Len(queue)].chat_id,
                            !.message = queue[Len(queue)].message]
    /\ queue' = SubSeq(queue, 1, Len(queue) - 1)
    /\ hist' = [hist EXCEPT !.done = NoDone]
    /\ UNCHANGED nq

\* the worker reads the head of the queue and leaves it there
Get_Peek ==
    /\ cons.pc = "get"
    /\ queue # <<>>
    /\ cons' = [cons EXCEPT !.pc = "limit", !.chat_id = Head(queue).chat_id,
                            !.message = Head(queue).message]
    /\ queue' = queue
    /\ hist' = [hist EXCEPT !.done = NoDone]
    /\ UNCHANGED nq

\* chat_id, message = self.queue.get(timeout=1.0)
Get ==
    /\ cons.pc = "get"
    /\ queue # <<>>
    /\ cons' = [cons EXCEPT !.pc = "limit", !.chat_id = Head(queue).chat_id,
                            !.message = Head(queue).message]
    /\ queue' = Tail(queue)
    /\ hist' = [hist EXCEPT !.done = NoDone]
    /\ UNCHANGED nq

\* the queue stays empty: queue.get raises Empty after the timeout and
\* the loop continues
GetEmpty ==
    /\ cons.pc = "get"
    /\ queue = <<>>
    /\ hist.idles < MaxIdle
    /\ nq' = NqAfter(QueueGetTimeout)
    /\ hist' = [HistAfter(QueueGetTimeout) EXCEPT !.idles = @ + 1]
    /\ UNCHANGED <<cons, queue>>

\* _send_message returns after the outcome given (True when it was "ok"):
\* task_done(), the next round of the loop
Return(h, outcome) ==
    /\ cons' = NoMessage
    /\ hist' = [h EXCEPT !.done = [message |-> cons.message, chat_id |-> cons.chat_id,
                                   limits |-> h.limits, timeouts |-> h.timeouts,
                                   outcome |-> outcome, deactivations |-> h.deactivations,
                                   success |-> outcome = "ok"],
                         !.finished = @ \cup {cons.message},
                         !.overtaken = @ \ {cons.message},
                         !.attempts = 0, !.limits = 0, !.timeouts = 0,
                         !.deactivations = <<>>]

\* _apply_rate_limits, "Update timestamps"; _send_message starts with retry_count = 0
Record(n, h, current_time) ==
    /\ nq' = [last_global_send |-> current_time,
              last_chat_send   |-> [c \in DOMAIN n.last_chat_send \cup {cons.chat_id} |->
                                       IF c = cons.chat_id THEN current_time
                                       ELSE n.last_chat_send[c]]]
    /\ hist' = [h EXCEPT !.prev_global_send = n.last_global_send]
    /\ cons' = [cons EXCEPT !.pc = "post", !.current_time = current_time,
                            !.sleep_time = 0, !.retry_count = 0]

\* the loop goes on whatever the count
MayRetry_Always(retry_count) == TRUE

\* while retry_count < max_retries / if retry_count < max_retries
MayRetry(retry_count) == retry_count < max_retries

\* the retry is made at once
RetryWait_None(retry_after) == 0

\* time.sleep(retry_after)
RetryWait(retry_after) == retry_after

\* the global interval is not waited for
RateLimitGlobal_NoSleep ==
    /\ cons.pc = "limit"
    /\ cons' = [cons EXCEPT !.pc = "chat", !.current_time = 0]
    /\ UNCHANGED <<nq, hist, queue>>

\* _apply_rate_limits, "Global rate limiting"
RateLimitGlobal ==
    /\ cons.pc = "limit"
    /\ LET current_time      == 0
           time_since_global == current_time - nq.last_global_send
       IN  IF time_since_global < global_min_interval
           THEN cons' = [cons EXCEPT !.pc = "gsleep", !.current_time = current_time,
                                     !.sleep_time = global_min_interval - time_since_global]
           ELSE cons' = [cons EXCEPT !.pc = "chat", !.current_time = current_time]
    /\ UNCHANGED <<nq, hist, queue>>

\* _apply_rate_limits, "Per-chat rate limiting" and "Update timestamps"
RateLimitChat ==
    /\ cons.pc = "chat"
    /\ IF /\ cons.chat_id \in DOMAIN nq.last_chat_send
          /\ cons.current_time - nq.last_chat_send[cons.chat_id] < per_chat_min_interval
       THEN /\ cons' = [cons EXCEPT !.pc = "csleep",
                           !.sleep_time = per_chat_min_interval
                                            - (cons.current_time - nq.last_chat_send[cons.chat_id])]
            /\ UNCHANGED <<nq, hist>>
       ELSE Record(nq, hist, cons.current_time)
    /\ UNCHANGED queue

\* time.sleep(...) returns, in _apply_rate_limits or in _send_message
Wake ==
    /\ cons.pc \in {"gsleep", "csleep", "rsleep", "tsleep"}
    /\ LET d == cons.sleep_time
       IN  CASE cons.pc = "gsleep" ->
                       /\ cons' = [cons EXCEPT !.pc = "chat", !.current_time = 0, !.sleep_time = 0]
                       /\ nq' = NqAfter(d) /\ hist' = HistAfter(d)
                [] cons.pc = "csleep" -> Record(NqAfter(d), HistAfter(d), 0)
                [] cons.pc = "rsleep" ->
                       /\ nq' = NqAfter(d)
                       /\ IF MayRetry(cons.retry_count + 1)
                          THEN /\ cons' = [cons EXCEPT !.pc = "post", !.retry_count = @ + 1,
                                                       !.sleep_time = 0]
                               /\ hist' = HistAfter(d)
                          ELSE Return(HistAfter(d), "429")
                [] cons.pc = "tsleep" ->
                       /\ cons' = [cons EXCEPT !.pc = "post", !.sleep_time = 0]
                       /\ nq' = NqAfter(d) /\ hist' = HistAfter(d)
    /\ UNCHANGED queue

\* the statuses after which the chat is deactivated and the message given
\* up: 400 passes for the 403 only
Permanent_Only403 == {"403"}

\* the statuses after which the chat is deactivated and the message given
\* up: if response.status_code == 403 / == 400
Permanent == {"403", "400"}

\* _deactivate_chat(chat_id): update_one({chatId}, {$set: {isActive: False}});
\* an exception of the store is caught and printed
deactivate_chat(chat_id, raises) ==
    telegramAccounts' = IF raises THEN telegramAccounts
                        ELSE [telegramAccounts EXCEPT ![chat_id] = FALSE]

\* the exception ends the worker thread
WorkerException_Dies ==
    /\ cons.pc \in {"limit", "chat", "post"}
    /\ cons' = [NoMessage EXCEPT !.pc = "dead"]
    /\ hist' = [hist EXCEPT !.finished = @ \cup {cons.message}]
    /\ UNCHANGED <<nq, queue>>

\* an exception that _apply_rate_limits or _send_message does not handle
\* itself: except Exception of _worker_loop prints it and the loop goes on
\* (task_done is not called, the message is gone)
WorkerException ==
    /\ cons.pc \in {"limit", "chat", "post"}
    /\ cons' = NoMessage
    /\ hist' = [hist EXCEPT !.done = [NoDone EXCEPT !.message = cons.message,
                                                    !.chat_id = cons.chat_id,
                                                    !.outcome = "exception"],
                            !.finished = @ \cup {cons.message},
                            !.overtaken = @ \ {cons.message},
                            !.attempts = 0, !.limits = 0, !.timeouts = 0]
    /\ UNCHANGED <<nq, queue>>

\* response = client.post(url, json=payload): the request goes out
Post ==
    /\ cons.pc = "post"
    /\ cons' = [cons EXCEPT !.pc = "wait"]
    /\ hist' = [hist EXCEPT !.attempts = @ + 1,
                            !.last_attempt = [c \in DOMAIN @ \cup {cons.chat_id} |->
                                                 IF c = cons.chat_id THEN 0 ELSE @[c]]]
    /\ UNCHANGED <<nq, queue>>

\* the request ends: a response, a timeout or another error (the status
\* and exception handling of _send_message)
Response ==
    /\ cons.pc = "wait"
    /\ \E outcome \in Outcomes, retry_after \in RetryAfters :
          LET d == IF outcome = "timeout" THEN HttpTimeout ELSE Latency
              h == [HistAfter(d) EXCEPT !.timeouts = IF outcome = "timeout" THEN @ + 1 ELSE @,
                                        !.limits = IF outcome = "429" THEN @ + 1 ELSE @]
              \* the messages for the same chat that wait in the queue
              waiting == {queue[i].message :
                             i \in {j \in DOMAIN queue : queue[j].chat_id = cons.chat_id}}
          IN  /\ nq' = NqAfter(d)
              /\ CASE outcome = "429" ->
                          /\ cons' = [cons EXCEPT !.pc = "rsleep", !.retry_after = retry_after,
                                                  !.sleep_time = RetryWait(retry_after)]
                          /\ hist' = h
                   [] outcome = "timeout" ->
                          IF MayRetry(cons.retry_count + 1)
                          THEN /\ cons' = [cons EXCEPT !.pc = "tsleep", !.retry_count = @ + 1,
                                                       !.sleep_time = TimeoutBackoff]
                               /\ hist' = h
                          ELSE Return(h, "timeout")
                   [] outcome \in Permanent ->
                          \E raises \in BOOLEAN :
                             /\ deactivate_chat(cons.chat_id, raises)
                             /\ Return([h EXCEPT !.deactivations = Append(@, cons.chat_id),
                                                 !.overtaken = IF raises THEN @
                                                               ELSE @ \cup waiting],
                                       outcome)
                   [] OTHER -> Return(h, outcome)
              /\ IF outcome \in Permanent THEN TRUE ELSE UNCHANGED telegramAccounts
    /\ UNCHANGED queue

\* get_notification_queue() has made the queue and started it: the flag is
\* set, the worker thread runs, nobody is inside start() or stop()
Started ==
    [running |-> TRUE, others |-> 0, ctl |-> "idle", clock |-> 0, lag |-> 0, calls |-> 0,
     passed |-> FALSE, at_stop |-> "", late_pops |-> 0, joined |-> ""]

InitQueue ==
    /\ nq = [last_global_send |-> -Horizon, last_chat_send |-> <<>>]
    /\ cons = NoMessage
    /\ hist = [produced |-> 0, idles |-> 0, prev_global_send |-> -Horizon,
               last_attempt |-> <<>>, enq_during |-> {}, attempts |-> 0, limits |-> 0,
               timeouts |-> 0, deactivations |-> <<>>, done |-> NoDone, finished |-> {},
               overtaken |-> {}]
    /\ telegramAccounts = [chat_id \in Chats |-> TRUE]
    /\ life = Started
    /\ PollIdle /\ StoreInit /\ DedupIdle /\ AggIdle /\ FltIdle /\ MuIdle /\ LoadIdle

\* one step of the worker thread
Worker ==
    \/ (Get \/ GetEmpty \/ RateLimitGlobal \/ RateLimitChat \/ Wake \/ Post \/ WorkerException)
           /\ UNCHANGED telegramAccounts
    \/ Response

NextQueue ==
    \/ \E chat_id \in Chats : Enqueue(chat_id) /\ UNCHANGED <<loopVars, storeVars, dedupVars, aggVars, fltVars, muVars, loadVars>>
    \/ Worker /\ UNCHANGED <<life, loopVars, storeVars, dedupVars, aggVars, fltVars, muVars, loadVars>>

SpecQueue == InitQueue /\ [][NextQueue]_vars

(***************************************************************************)
(* SpecSend: one call of _send_message, for any message and any outcomes   *)
(* of its requests.  The worker thread is scheduled as long as the call    *)
(* has a step to take.                                                     *)
(***************************************************************************)
InitSend ==
    /\ \E chat_id \in Chats, message \in 1..MaxMessages :
          /\ cons = [NoMessage EXCEPT !.pc = "post", !.chat_id = chat_id, !.message = message]
          /\ nq = [last_global_send |-> 0, last_chat_send |-> [c \in {chat_id} |-> 0]]
          /\ hist = [produced |-> message, idles |-> 0, prev_global_send |-> -Horizon,
                     last_attempt |-> <<>>, enq_during |-> {}, attempts |-> 0, limits |-> 0,
                     timeouts |-> 0, deactivations |-> <<>>, done |-> NoDone, finished |-> {},
                     overtaken |-> {}]
    /\ telegramAccounts = [chat_id \in Chats |-> TRUE]
    /\ life = Started
    /\ PollIdle /\ StoreInit /\ DedupIdle /\ AggIdle /\ FltIdle /\ MuIdle /\ LoadIdle

NextSend ==
    /\ cons.pc # "get"
    /\ \/ (Post \/ Wake) /\ UNCHANGED telegramAccounts
       \/ Response
    /\ UNCHANGED <<life, loopVars, storeVars, dedupVars, aggVars, fltVars, muVars, loadVars>>

SpecSend == InitSend /\ [][NextSend]_vars /\ WF_vars(NextSend)

(***************************************************************************)
(* SpecDrain: the worker thread of SpecQueue, scheduled as long as it has  *)
(* a step to take, while the producer enqueues.  The running flag stays    *)
(* set; every request ends (httpx.Client(timeout=10.0)) and every sleep    *)
(* is finite, so a step that is enabled is taken.  Between queue.get and   *)
(* the first client.post nothing raises: _apply_rate_limits is time        *)
(* arithmetic, time.sleep of a positive time and dictionary writes, and    *)
(* _send_message builds the url and the payload and enters its try; the    *)
(* token is configured (Config.validate).  An unhandled exception can      *)
(* come from the handling of a response only.                              *)
(***************************************************************************)
\* an exception out of _send_message, after a request of the message
WorkerExceptionAfterAttempt ==
    /\ hist.attempts > 0
    /\ WorkerException

\* one step of the worker thread
WorkerDrain ==
    /\ \/ (Get \/ GetEmpty \/ RateLimitGlobal \/ RateLimitChat \/ Wake \/ Post
             \/ WorkerExceptionAfterAttempt) /\ UNCHANGED telegramAccounts
       \/ Response
    /\ UNCHANGED <<life, loopVars, storeVars, dedupVars, aggVars, fltVars, muVars, loadVars>>

NextDrain ==
    \/ \E chat_id \in Chats : Enqueue(chat_id) /\ UNCHANGED <<loopVars, storeVars, dedupVars, aggVars, fltVars, muVars, loadVars>>
    \/ WorkerDrain

SpecDrain == InitQueue /\ [][NextDrain]_vars /\ WF_vars(WorkerDrain)

(***************************************************************************)
(* SpecLife: start() and stop() of the NotificationQueue, called by one    *)
(* thread, while the worker thread of cons runs and a producer enqueues    *)
(* up to MaxPending messages, all for one chat.                            *)
(*                                                                         *)
(* cons.pc = "get" stands for the check of `while self.running` and for    *)
(* the queue.get that follows it.  While the flag is set the two behave    *)
(* alike; when stop() clears the flag, life.passed says which of the two   *)
(* the worker was at: inside queue.get it still takes a message that is    *)
(* there or arrives before the timeout.                                    *)
(*                                                                         *)
(* join(timeout=5.0): life.clock is the time the join has lasted.  A step  *)
(* of the worker that takes d ms ends d ms after the worker's step before  *)
(* it; life.lag is the part of that time that has passed in joins that     *)
(* timed out meanwhile.                                                    *)
(*                                                                         *)
(* A second worker thread, once start() has made one, is counted in        *)
(* life.others; its steps are those of the first and are not followed, and *)
(* the caller of start() and stop() is followed until that point.          *)
(***************************************************************************)
JoinTimeout == 5000      \* self.worker_thread.join(timeout=5.0)

MaxPending == 1      \* messages the producer enqueues in SpecLife
MaxCalls   == 2      \* calls of start() and stop() after the first start()

\* no worker thread: _worker_loop has returned
NoThread == [NoMessage EXCEPT !.pc = "none"]

\* the worker threads inside _worker_loop
LiveWorkers == (IF cons.pc = "none" THEN 0 ELSE 1) + life.others

\* start(): nothing when the flag is set; else the flag is set and a new
\* thread runs _worker_loop
Start ==
    /\ life.ctl = "idle" /\ life.calls < MaxCalls /\ life.others = 0
    /\ IF ~life.running
       THEN /\ life' = [life EXCEPT !.running = TRUE, !.calls = @ + 1, !.passed = FALSE,
                                    !.at_stop = "", !.late_pops = 0, !.joined = "",
                                    !.others = IF cons.pc = "none" THEN 0 ELSE 1]
            /\ cons' = IF cons.pc = "none" THEN NoMessage ELSE cons
       ELSE /\ life' = [life EXCEPT !.calls = @ + 1]
            /\ UNCHANGED cons
    /\ UNCHANGED <<nq, hist, queue, telegramAccounts>>

\* stop(): self.running = False, then the join begins (worker_thread is set
\* since the first start)
Stop ==
    /\ life.ctl = "idle" /\ life.calls < MaxCalls /\ life.others = 0
    /\ \E passed \in BOOLEAN :
          /\ passed => (life.running /\ cons.pc = "get")
          /\ life' = [life EXCEPT !.running = FALSE, !.calls = @ + 1,
                                  !.ctl = "join", !.clock = 0, !.joined = "",
                                  !.passed = IF life.running THEN passed ELSE @,
                                  !.at_stop = IF life.running THEN cons.pc ELSE @]
    /\ UNCHANGED <<nq, cons, hist, queue, telegramAccounts>>

\* the longest the worker can still be blocked in what it is doing
Blocked ==
    CASE cons.pc = "wait"                                  -> HttpTimeout
      [] cons.pc \in {"gsleep", "csleep", "rsleep", "tsleep"} -> cons.sleep_time
      [] cons.pc = "get" /\ queue = <<>> /\ (life.running \/ life.passed) -> QueueGetTimeout
      [] OTHER                                               -> 0

\* join returns: the thread has ended, or the timeout has passed with the
\* worker still in its loop; stop() prints and returns
Join ==
    /\ life.ctl = "join"
    /\ \/ /\ cons.pc = "none"
          /\ life' = [life EXCEPT !.ctl = "idle", !.joined = "ended"]
       \/ /\ cons.pc # "none"
          /\ Blocked - life.lag >= JoinTimeout - life.clock
          /\ life' = [life EXCEPT !.ctl = "idle", !.joined = "timeout", !.clock = JoinTimeout,
                                  !.lag = @ + (JoinTimeout - life.clock)]
    /\ UNCHANGED <<nq, cons, hist, queue, telegramAccounts>>

\* join() without a timeout: the caller waits as long as it takes
CanElapse_NoTimeout(r) == TRUE

\* join(timeout=5.0): the time that can pass while the caller is in join
CanElapse(r) == life.clock + r <= JoinTimeout

\* one step of the worker thread, and the time it takes
LifeWorker ==
    /\ cons.pc # "none"
    /\ cons.pc = "get" => (life.running \/ life.passed)
    /\ Worker
    /\ LET d == CASE cons.pc = "wait" ->
                         IF hist'.timeouts > hist.timeouts \/ hist'.done.timeouts > hist.timeouts
                         THEN HttpTimeout ELSE Latency
                  [] cons.pc \in {"gsleep", "csleep", "rsleep", "tsleep"} -> cons.sleep_time
                  [] cons.pc = "get" /\ queue = <<>> -> QueueGetTimeout
                  [] OTHER -> 0
           r == IF d > life.lag THEN d - life.lag ELSE 0
       IN  /\ life.ctl = "join" => CanElapse(r)
           /\ life' = [life EXCEPT !.clock = IF life.ctl = "join" THEN @ + r ELSE @,
                                   !.lag = 0, !.passed = FALSE,
                                   !.late_pops = IF cons.pc = "get" /\ cons'.pc = "limit"
                                                    /\ ~life.running
                                                 THEN @ + 1 ELSE @]

\* while self.running: the flag is cleared, _worker_loop returns
LoopExit ==
    /\ cons.pc = "get" /\ ~life.running /\ ~life.passed
    /\ cons' = NoThread
    /\ UNCHANGED <<nq, hist, queue, telegramAccounts, life>>

InitLife == InitQueue

NextLife ==
    \/ hist.produced < MaxPending /\ Enqueue("chat1") /\ UNCHANGED <<loopVars, storeVars, dedupVars, aggVars, fltVars, muVars, loadVars>>
    \/ Start      /\ UNCHANGED <<loopVars, storeVars, dedupVars, aggVars, fltVars, muVars, loadVars>>
    \/ Stop       /\ UNCHANGED <<loopVars, storeVars, dedupVars, aggVars, fltVars, muVars, loadVars>>
    \/ Join       /\ UNCHANGED <<loopVars, storeVars, dedupVars, aggVars, fltVars, muVars, loadVars>>
    \/ LifeWorker /\ UNCHANGED <<loopVars, storeVars, dedupVars, aggVars, fltVars, muVars, loadVars>>
    \/ LoopExit   /\ UNCHANGED <<loopVars, storeVars, dedupVars, aggVars, fltVars, muVars, loadVars>>

SpecLife == InitLife /\ [][NextLife]_vars

(***************************************************************************)
(* SpecLoad: one call of db.py get_all_user_filters.  The call is not one  *)
(* read: the enabled configs are fetched by one query and for each of them *)
(* the Telegram account is looked up by a query of its own, while the web  *)
(* application (not in this repository) enables and disables configs and   *)
(* Telegram accounts are connected and deactivated.  Each config has its   *)
(* own user; u3 has no Telegram account and one config has no userId.      *)
(***************************************************************************)
MaxStoreChanges == 2     \* changes of the two collections during the call

Config(userId, enabled) == [userId |-> userId, enabled |-> enabled]

ConfigUsers == <<"u1", "u2", "u3", "">>

\* the user of a telegramAccounts document
AccountUser(chat_id) ==
    CASE chat_id = "chat1" -> "u1"
      [] chat_id = "chat2" -> "u2"

\* every config is found, enabled or not
FindEnabled_All(configs) == configs

\* configs_collection.find({ 'enabled': True }), db.py 87
FindEnabled(configs) == SelectSeq(configs, LAMBDA config : config.enabled = TRUE)

\* the documents telegram_collection.find_one({'userId': user_id,
\* 'isActive': True}) can return, db.py 96-99
ActiveAccounts(user_id) ==
    {chat_id \in DOMAIN telegramAccounts :
        AccountUser(chat_id) = user_id /\ telegramAccounts[chat_id]}

NoLoad ==
    [pc |-> "call", configs |-> <<>>, i |-> 1, user_filters |-> <<>>,
     at_find |-> <<>>, at_lookup |-> <<>>, changes |-> 0]

\* configs = configs_collection.find({ 'enabled': True }).to_list(None)
FindConfigs ==
    /\ load.pc = "call"
    /\ LET configs == FindEnabled(whaleAlertConfigs)
       IN  load' = [load EXCEPT !.configs = configs,
                                !.at_find = whaleAlertConfigs,
                                !.pc = IF configs = <<>> THEN "return" ELSE "join"]
    /\ UNCHANGED <<whaleAlertConfigs, telegramAccounts>>

\* one round of 'for config in configs' (db.py 90-169): the config is
\* skipped without a userId or without an active account, else its filter
\* is appended
JoinAccount ==
    /\ load.pc = "join"
    /\ LET config  == load.configs[load.i]
           user_id == config.userId
           next    == [load EXCEPT !.i = @ + 1,
                                   !.at_lookup = Append(@, telegramAccounts),
                                   !.pc = IF load.i = Len(load.configs)
                                          THEN "return" ELSE "join"]
       IN  IF user_id = "" \/ ActiveAccounts(user_id) = {}
           THEN load' = next
           ELSE \E chat_id \in ActiveAccounts(user_id) :
                   load' = [next EXCEPT !.user_filters =
                               Append(@, UserFilter(user_id, 0, 0, 100, <<"BUY", "SELL">>,
                                                    <<>>, <<>>, <<>>,
                                                    load_selected_categories(<<>>, <<>>),
                                                    config.enabled, chat_id))]
    /\ UNCHANGED <<whaleAlertConfigs, telegramAccounts>>

\* a query raises: the call ends without a list
LoadRaises ==
    /\ load.pc \in {"call", "join"}
    /\ load' = [load EXCEPT !.pc = "raised", !.user_filters = <<>>]
    /\ UNCHANGED <<whaleAlertConfigs, telegramAccounts>>

\* the web application switches the alerts of a user on or off
SetEnabled ==
    /\ load.changes < MaxStoreChanges
    /\ \E k \in DOMAIN whaleAlertConfigs :
          whaleAlertConfigs' = [whaleAlertConfigs EXCEPT ![k].enabled = ~@]
    /\ load' = [load EXCEPT !.changes = @ + 1]
    /\ UNCHANGED telegramAccounts

\* a Telegram account is connected again, or deactivated
\* (notification_queue.py _deactivate_chat)
SetActive ==
    /\ load.changes < MaxStoreChanges
    /\ \E chat_id \in DOMAIN telegramAccounts :
          telegramAccounts' = [telegramAccounts EXCEPT ![chat_id] = ~@]
    /\ load' = [load EXCEPT !.changes = @ + 1]
    /\ UNCHANGED whaleAlertConfigs

InitLoad ==
    /\ whaleAlertConfigs \in {[k \in DOMAIN ConfigUsers |-> Config(ConfigUsers[k], enabled[k])] :
                                 enabled \in [DOMAIN ConfigUsers -> BOOLEAN]}
    /\ telegramAccounts \in [Chats -> BOOLEAN]
    /\ load = NoLoad
    /\ nq = <<>> /\ cons = <<>> /\ hist = <<>> /\ life = <<>>
    /\ PollIdle /\ StoreInit /\ DedupIdle /\ AggIdle /\ FltIdle /\ MuIdle

NextLoad ==
    \/ FindConfigs /\ UNCHANGED <<pollVars, storeVars, dedupVars, aggVars, fltVars, muVars, nq, cons, hist, life>>
    \/ JoinAccount /\ UNCHANGED <<pollVars, storeVars, dedupVars, aggVars, fltVars, muVars, nq, cons, hist, life>>
    \/ LoadRaises  /\ UNCHANGED <<pollVars, storeVars, dedupVars, aggVars, fltVars, muVars, nq, cons, hist, life>>
    \/ SetEnabled  /\ UNCHANGED <<pollVars, storeVars, dedupVars, aggVars, fltVars, muVars, nq, cons, hist, life>>
    \/ SetActive   /\ UNCHANGED <<pollVars, storeVars, dedupVars, aggVars, fltVars, muVars, nq, cons, hist, life>>

SpecLoad == InitLoad /\ [][NextLoad]_vars

(***************************************************************************)
(* SpecKey: types.py Trade.get_fill_key on two fills.  The fields of a     *)
(* Trade come from the rows of the Data API as they are: the condition id  *)
(* and the outcome may be None, empty, or any text, the text "None" and a  *)
(* text with a colon included.                                             *)
(***************************************************************************)
KeyConditions == {"c1", None, "None", "c1:Yes"}
KeyOutcomes   == {"Yes", "No", None, "", "None", "Yes:No"}

KeyFills ==
    {Trade(tx, "0xab", side, size, price, cond, outcome, 3) :
        tx \in {"t1", "t2"}, side \in {"BUY", "SELL"}, size \in {1, 2},
        price \in {40, 50}, cond \in KeyConditions, outcome \in KeyOutcomes}

\* fill.get_fill_key() of each of the two fills
FillKeyOfEach ==
    /\ ~agg_done
    /\ agg_out' = [i \in DOMAIN agg_in |-> get_fill_key(agg_in[i])]
    /\ agg_done' = TRUE
    /\ UNCHANGED agg_in

InitKey ==
    /\ agg_in \in {<<a, b>> : a \in KeyFills, b \in KeyFills}
    /\ agg_out = <<>> /\ agg_done = FALSE
    /\ StoreInit /\ DedupIdle /\ PollIdle /\ FltIdle /\ MuIdle /\ LoadIdle /\ ConsIdle

NextKey == FillKeyOfEach /\ UNCHANGED <<pollVars, storeVars, dedupVars, fltVars, muVars, loadVars, consVars>>

SpecKey == InitKey /\ [][NextKey]_vars

(***************************************************************************)
(* SpecDispatch: Steps 4 and 5 of a cycle (main.py 283-332) on their own.  *)
(* Init is the loop after Step 3: the fills of the batch are marked and    *)
(* folded into trades, any part of the markets is cached, and the filter   *)
(* list is any list of the three filters.  A row of the Data API may lack  *)
(* the conditionId, and the chatId of a Telegram account may be empty      *)
(* (db.py 105).                                                            *)
(***************************************************************************)
FilterNoChat == UserFilter("u3", 0, 0, 100, <<"BUY", "SELL">>, <<>>, <<>>, <<>>, <<>>, TRUE, "")

TradeNoCondition == Trade("t4", "0xab", "BUY", 3, 50, None, "Yes", 3)

\* the fills of one or two trades, in either order
DispatchBatches ==
    LET groups == {<<TradeA1, TradeA2>>, <<TradeB>>, <<TradeNoCondition>>}
    IN  groups \cup {p[1] \o p[2] : p \in {q \in groups \X groups : q[1] # q[2]}}

\* lists of distinct filters
DispatchFilters ==
    LET all == {FilterAll, FilterBig, FilterNoChat}
    IN  {<<>>} \cup {<<f>> : f \in all}
          \cup {p \in all \X all : p[1] # p[2]}
          \cup {p \in all \X all \X all : Cardinality({p[1], p[2], p[3]}) = 3}

InitDispatch ==
    /\ pc = "match"
    /\ cursorStore = NoMarker /\ last_marker = NoMarker
    /\ marketCache \in SUBSET {"c1", "c2"}
    /\ all_user_filters \in DispatchFilters
    /\ filterStore = all_user_filters /\ reloadSignal = FALSE /\ saves = 0
    /\ last_filter_reload = 0 /\ reload_reason = ""
    /\ trades \in DispatchBatches
    /\ new_fills = trades
    /\ fill_groups = GroupFills(new_fills)
    /\ aggregated_trades = AggregateFills(new_fills)
    /\ match_i = 1 /\ queue = <<>>
    /\ lastEnq = [x \in FillKeys \X UserIds |-> -1]
    /\ enqCount = [x \in AggKeys \X UserIds |-> 0]
    /\ live_at_dedup = {}
    /\ cyc = NewCycle /\ cycles = 1 /\ crashes = 0 /\ feed = {}
    /\ now = 0
    /\ processedTrades = [k \in FillKeys \cup {get_fill_key(TradeNoCondition)} |->
                             IF \E i \in DOMAIN new_fills : get_fill_key(new_fills[i]) = k
                             THEN now + DefaultTtlMinutes ELSE NoDoc]
    /\ lastMark = [k \in DOMAIN processedTrades |->
                      IF processedTrades[k] = NoDoc THEN NoMark
                      ELSE [at |-> now, ttl |-> DefaultTtlMinutes]]
    /\ DedupIdle /\ AggIdle /\ FltIdle /\ MuIdle /\ LoadIdle /\ ConsIdle

NextDispatch == MatchTrade /\ UNCHANGED <<dedupVars, aggVars, fltVars, muVars, loadVars, consVars>>

SpecDispatch == InitDispatch /\ [][NextDispatch]_vars

(***************************************************************************)
(* Properties                                                              *)
(***************************************************************************)
\* the event of an aggregation key as a batch shows it, and who wants it
EventOf(batch, k) == from_fills(SelectSeq(batch, LAMBDA t : get_aggregation_key(t) = k))

\* C1: each economic event (the fills of one aggregation key) is evaluated
\* and enqueued for each matching destination exactly once, never zero
\* times and never twice: when a cycle has run to its end without an
\* exception, every event of its batch has one enqueue for every filter
\* that matches it.
C1_ExactlyOnce ==
    (pc = "sleep" /\ ~cyc.exception /\ crashes = 0) =>
        \A i \in DOMAIN trades :
            LET k     == get_aggregation_key(trades[i])
                event == EventOf(trades, k)
            IN  \A j \in DOMAIN all_user_filters :
                    aggregated_trade_matches_user_filter(
                        event, MarketOf(event.condition_id), all_user_filters[j])
                    => enqCount[<<k, all_user_filters[j].user_id>>] = 1

\* the users that the messages appended to the queue in this step go to
NewlyNotified ==
    LET added == SubSeq(queue', Len(queue) + 1, Len(queue'))
    IN  {all_user_filters[j].user_id :
            j \in {n \in DOMAIN all_user_filters :
                      \E m \in DOMAIN added : added[m].chat_id = all_user_filters[n].telegram_chat_id}}

\* C2: whenever a notification for an aggregated trade is enqueued, every
\* fill of that trade already has its dedup record in the store; and a
\* fill is never enqueued for the same subscriber a second time while the
\* record written before its first enqueue is live, crash and restart
\* included (the crash can only lose the notification).
C2_MarkBeforeEnqueue ==
    [][(Len(queue') > Len(queue)) =>
          \A f \in Range(fill_groups[match_i].fills) :
             /\ is_trade_processed(get_fill_key(f))
             /\ lastMark[get_fill_key(f)].at # -1
             /\ \A u \in NewlyNotified :
                   \/ lastEnq[<<get_fill_key(f), u>>] = -1
                   \/ now >= lastEnq[<<get_fill_key(f), u>>] + DefaultTtlMinutes]_vars

\* after a crash between the enqueue of one trade and that of the next, the
\* restarted worker fetches both again and admits neither: one was notified
\* once, the other is missed
C2_Witness ==
    /\ crashes = 1 /\ pc = "advance" /\ new_fills = <<>>
    /\ \E f, g \in Range(trades) :
          /\ get_fill_key(f) \in live_at_dedup /\ get_fill_key(g) \in live_at_dedup
          /\ lastEnq[<<get_fill_key(f), "u1">>] # -1
          /\ lastEnq[<<get_fill_key(g), "u1">>] = -1

MarkLive(m, t) == m.at # -1 /\ t < m.at + m.ttl

\* C3: after mark_trade_as_processed(k, t) at time T, is_trade_processed(k)
\* returns true at every time before T + t and false at every time from
\* T + t on (T, t the latest mark of k), whether or not the expired document
\* is still in the collection; a key never marked is not processed.
C3_TtlWindow ==
    /\ \A k \in FillKeys : is_trade_processed(k) <=> MarkLive(lastMark[k], now)
    /\ check_result # NoCheck =>
          (check_result.result <=> MarkLive(check_result.mark, check_result.at))

\* an expired record that is still stored, and the call answering false
C3_Witness ==
    /\ check_result # NoCheck
    /\ check_result.mark.at # -1
    /\ check_result.at >= check_result.mark.at + check_result.mark.ttl
    /\ check_result.stored
    /\ ~check_result.result
    /\ \E k \in FillKeys : k # check_result.key /\ is_trade_processed(k)

\* C4: in every cycle a fetched fill whose dedup record is live is not
\* among the new fills, in no fill group and in no aggregated trade,
\* wherever it stands in the batch.
C4_LiveFillsExcluded ==
    /\ \A f \in Range(new_fills) : get_fill_key(f) \notin live_at_dedup
    /\ \A i \in DOMAIN fill_groups :
          \A f \in Range(fill_groups[i].fills) :
             /\ get_fill_key(f) \notin live_at_dedup
             /\ f \in Range(new_fills)
    /\ Len(aggregated_trades) <= Len(fill_groups)
    /\ \A i \in DOMAIN aggregated_trades :
          aggregated_trades[i] = from_fills(fill_groups[i].fills)

\* a batch in which a fill with a live record stands before a new fill
C4_Witness ==
    /\ pc = "aggregate"
    /\ \E i, j \in DOMAIN trades :
          /\ i < j
          /\ get_fill_key(trades[i]) \in live_at_dedup
          /\ trades[j] \in Range(new_fills)

\* C5: the persisted Marker's timestamp never decreases: no write lowers it.
C5_MarkerMonotonic ==
    [][cursorStore'.last_processed_timestamp >= cursorStore.last_processed_timestamp]_vars

InCycle == pc \in {"fetch", "dedup", "aggregate", "enrich", "match", "advance", "sleep"}

\* C6: a cycle with no new fills after deduplication (an empty fetch
\* included) leaves the Marker as it was at the start of the cycle, in
\* memory and in the store, and writes nothing.
C6_EmptyCycleKeepsMarker ==
    (InCycle /\ new_fills = <<>>) =>
        /\ last_marker = cyc.start_marker
        /\ cursorStore = cyc.start_store
        /\ cyc.writes = 0

\* a cycle, with a Marker in place, whose fetched fills were all seen before
C6_Witness ==
    /\ pc = "sleep" /\ ~cyc.exception
    /\ trades # <<>> /\ new_fills = <<>>
    /\ cursorStore # NoMarker

RECURSIVE MaxTradeTimestamp(_)
MaxTradeTimestamp(aggs) ==
    IF Len(aggs) = 1 THEN aggs[1].timestamp
    ELSE LET m == MaxTradeTimestamp(Tail(aggs))
         IN  IF aggs[1].timestamp >= m THEN aggs[1].timestamp ELSE m

\* C7: a cycle that produced aggregated trades and ended without an
\* exception wrote the Marker exactly once, after all its trades were
\* matched, and the Marker's timestamp is the largest timestamp of the
\* cycle's aggregated trades.
C7_MarkerIsNewest ==
    (pc = "sleep" /\ ~cyc.exception /\ aggregated_trades # <<>>) =>
        /\ cyc.writes = 1
        /\ cyc.matched_at_write = Len(aggregated_trades)
        /\ Len(aggregated_trades) = Len(fill_groups)
        /\ cursorStore = last_marker
        /\ cursorStore.last_processed_timestamp = MaxTradeTimestamp(aggregated_trades)

\* two trades of different age, an alert enqueued, the Marker written
C7_Witness ==
    /\ pc = "sleep" /\ ~cyc.exception
    /\ Len(aggregated_trades) = 2
    /\ aggregated_trades[1].timestamp > aggregated_trades[2].timestamp
    /\ queue # <<>>
    /\ cyc.writes = 1

RECURSIVE SumOver(_, _, _)
SumOver(I, s, field) ==
    IF I = {} THEN 0
    ELSE LET i == CHOOSE j \in I : TRUE
             v == CASE field = "size"     -> s[i].size
                    [] field = "notional" -> s[i].size * s[i].price
         IN  v + SumOver(I \ {i}, s, field)

GateEnabled(f)       == f.enabled
GateNotional(t, f)   == t.total_notional_usd >= f.min_notional_usd
GatePrice(t, f)      == InPriceRange(t.vwap_price, f.min_price, f.max_price)
GateSide(t, f)       == t.side \in Range(f.sides)
GateCategory(m, f)   == \/ f.selected_categories = <<>>
                        \/ Range(f.selected_categories) \cap Range(m.categories) # {}
GateInstrument(t, f) == \/ f.markets_filter = <<>>
                        \/ t.condition_id \in Range(f.markets_filter)

\* C9: the predicate is true exactly when the six gates hold (enabled,
\* notional, price range, side, category allow-list empty or meeting the
\* market's categories, instrument allow-list empty or holding the trade's
\* instrument), nothing else having a say.
C9_SixGates ==
    flt_done =>
        (flt_out <=> /\ GateEnabled(flt_in.filter)
                     /\ GateNotional(flt_in.trade, flt_in.filter)
                     /\ GatePrice(flt_in.trade, flt_in.filter)
                     /\ GateSide(flt_in.trade, flt_in.filter)
                     /\ GateCategory(flt_in.market, flt_in.filter)
                     /\ GateInstrument(flt_in.trade, flt_in.filter))

\* C10: for a trade that passes the enabled, notional, price, side and
\* instrument gates, an empty category allow-list matches whatever the
\* market's categories are, and a non-empty allow-list does not match a
\* market without categories.
C10_AllowList ==
    (/\ flt_done
     /\ GateEnabled(flt_in.filter)
     /\ GateNotional(flt_in.trade, flt_in.filter)
     /\ GatePrice(flt_in.trade, flt_in.filter)
     /\ GateSide(flt_in.trade, flt_in.filter)
     /\ GateInstrument(flt_in.trade, flt_in.filter))
    => /\ flt_in.filter.selected_categories = <<>> => flt_out
       /\ (flt_in.filter.selected_categories # <<>> /\ flt_in.market.categories = <<>>)
             => ~flt_out

\* the i-th smallest element of a set of indices
Kth(I, k) == CHOOSE i \in I : Cardinality({j \in I : j < i}) = k - 1

\* C11: get_matching_users_for_aggregated_trade returns exactly the filters
\* of the input list for which the match predicate is true, one for each
\* matching position, in the order of the input list.
C11_OrderedSubset ==
    mu_done =>
        LET I == {i \in DOMAIN mu_in.filters :
                     aggregated_trade_matches_user_filter(mu_in.trade, mu_in.market,
                                                          mu_in.filters[i])}
        IN  /\ Len(mu_out) = Cardinality(I)
            /\ \A k \in DOMAIN mu_out : mu_out[k] = mu_in.filters[Kth(I, k)]

\* a list in which a filter that does not match stands between two
\* different filters that do
C11_Witness ==
    /\ mu_done
    /\ Len(mu_in.filters) = 3 /\ Len(mu_out) = 2
    /\ mu_out[1] # mu_out[2]
    /\ mu_in.filters[2] \notin Range(mu_out)

\* C12: once the loop has started, no failure raised by a step of an
\* iteration ends it: the worker never takes the "Fatal error" exit.
C12_NoFatalExit == pc # "fatal"

\* C13: an exception raised by the fetch, the enrichment or the matching
\* is caught in its cycle: the loop goes to the sleep with the queue as it
\* was, and from the sleep it goes to the top of the loop, the queue still
\* as it was (a kill or a shutdown signal aside).
C13_CaughtInCycle ==
    [][ /\ (pc \in {"fetch", "enrich", "match"} /\ cyc'.exception)
            => pc' = "sleep" /\ queue' = queue
        /\ pc \in {"fetch", "enrich", "match"} => pc' # "fatal"
        /\ (pc = "sleep" /\ cyc.exception /\ pc' \notin {"sleep", "down", "stopped"})
            => pc' = "start" /\ queue' = queue ]_vars

\* the matching raised after a first aggregated trade was matched and
\* its notification enqueued; the loop is at the sleep
C13_Witness ==
    /\ pc = "sleep" /\ cyc.exception
    /\ cycles = 1 /\ crashes = 0
    /\ match_i > 1 /\ match_i <= Len(aggregated_trades)
    /\ queue # <<>>

\* C14: when the re-read of the filters fails, the in-memory list is
\* left as it was, the cycle goes on to the fetch, and the fetch runs
\* with that list.
C14_FailedRereadKeepsFilters ==
    [][ /\ (pc = "reread" /\ cyc'.reload = "failed")
            => all_user_filters' = all_user_filters /\ pc' = "fetch"
        /\ (pc = "fetch" /\ cyc.reload = "failed" /\ pc' \notin {"down", "stopped"})
            => all_user_filters' = all_user_filters /\ pc' \in {"dedup", "sleep"} ]_vars

\* the re-read failed while the store held a list different from the one
\* in memory
C14_Witness ==
    /\ pc = "fetch" /\ cyc.reload = "failed"
    /\ all_user_filters = <<FilterAll, FilterBig>>
    /\ filterStore = <<FilterAll>>

C16_EnqueueNeverBlocks ==
    /\ ~full(queue)
    /\ hist.produced < MaxMessages
         => \A chat_id \in Chats :
               ENABLED (Enqueue(chat_id) /\ UNCHANGED <<loopVars, storeVars, dedupVars,
                                                         aggVars, fltVars, muVars, loadVars>>)

\* messages were enqueued while the worker was blocked in a send and
\* while it waited out a retry-after, and they wait in the queue
C16_Witness ==
    /\ {"retry", "send"} \subseteq hist.enq_during
    /\ Len(queue) >= 2

\* C17: when the send of a message starts, the send time recorded for the
\* message before it lies at least the global minimum interval back.
C17_GlobalInterval ==
    (cons.pc = "post" /\ cons.retry_count = 0 /\ hist.attempts = 0)
        => hist.prev_global_send <= -global_min_interval

\* the worker had to sleep: the send of the second message starts exactly
\* the global minimum interval after the time recorded for the first
C17_Witness ==
    /\ cons.pc = "post" /\ cons.retry_count = 0 /\ hist.attempts = 0
    /\ hist.finished # {}
    /\ hist.prev_global_send = -global_min_interval

\* C18: when a send attempt to a destination starts, first attempt or
\* retry, the attempt before it to the same destination lies at least
\* the per-destination minimum interval back.
C18_PerChatInterval ==
    (cons.pc = "post" /\ cons.chat_id \in DOMAIN hist.last_attempt)
        => hist.last_attempt[cons.chat_id] <= -per_chat_min_interval

\* C19: on a 429 with retry-after r the worker waits r; then it attempts
\* the same message again, nothing having been taken from the queue, or,
\* the attempts used up, drops the message; the worker puts nothing on
\* the queue, so a finished message is never in it again; no message is
\* attempted more than max_retries times.
C19_RetryAfter429 ==
    /\ [](/\ hist.attempts <= max_retries
          /\ \A i \in DOMAIN queue :
                queue[i].message \notin hist.finished /\ queue[i].message # cons.message)
    /\ [][ /\ (cons.pc = "wait" /\ cons'.pc = "rsleep")
               => cons'.sleep_time = cons'.retry_after
           /\ (cons.pc = "rsleep" /\ cons'.pc # "rsleep")
               => /\ hist'.last_attempt[cons.chat_id]
                       <= Past(hist.last_attempt[cons.chat_id], cons.retry_after)
                  /\ queue' = queue
                  /\ IF cons.retry_count + 1 < max_retries
                     THEN /\ cons'.pc = "post"
                          /\ cons'.message = cons.message /\ cons'.chat_id = cons.chat_id
                     ELSE /\ cons' = NoMessage
                          /\ cons.message \in hist'.finished /\ ~hist'.done.success
           /\ Len(queue') > Len(queue)
               => /\ hist'.produced = hist.produced + 1
                  /\ queue' = Append(queue, queue'[Len(queue')])
                  /\ queue'[Len(queue')].message = hist'.produced ]_vars

\* a message was answered 429 three times and dropped, while another
\* message waited in the queue
C19_Witness ==
    /\ cons = NoMessage
    /\ hist.done.limits = max_retries /\ ~hist.done.success
    /\ hist.done.message \in hist.finished
    /\ queue # <<>>

\* C20: whatever the outcomes of its requests, a message is attempted at
\* most max_retries times and _send_message returns; a message whose
\* attempts all time out is dropped with the third timeout.
C20_SendTerminates ==
    /\ [](/\ hist.attempts <= max_retries
          /\ hist.timeouts < max_retries
          /\ hist.done.timeouts = max_retries => (cons = NoMessage /\ ~hist.done.success))
    /\ (cons.pc = "post") ~> (cons.pc = "get")

\* three attempts, three timeouts, and the call has returned
C20_Witness ==
    /\ cons = NoMessage
    /\ hist.done.timeouts = max_retries
    /\ hist.done.limits = 0

C22_NoSendAfterDeactivation ==
    (cons.pc = "post" /\ cons.message \in hist.overtaken) => telegramAccounts[cons.chat_id]

\* C23: when the cycle has passed an aggregated trade through Step 4
\* without market metadata (the lookup found nothing for its instrument),
\* the fills of that trade are not marked processed.
C23_UnenrichedNotMarked ==
    \A i \in DOMAIN aggregated_trades :
        (/\ pc \in {"match", "advance", "sleep"} /\ i < match_i
         /\ aggregated_trades[i].condition_id \notin marketCache)
            => \A fill \in Range(fill_groups[i].fills) :
                   ~is_trade_processed(get_fill_key(fill))

\* C24: whatever ends the handling of a message (sent, retries used up,
\* permanent rejection, an exception nobody else handled), the worker is
\* back at the top of its loop with nothing in hand, the queue is as it
\* was, and the worker can take the next message whenever one is queued;
\* the producer is not touched: nothing of the poll loop changes and an
\* enqueue stays possible.
C24_WorkerGoesOn ==
    /\ [](/\ cons.pc \in {"get", "limit", "chat", "gsleep", "csleep", "post", "wait",
                           "rsleep", "tsleep"}
          /\ (cons.pc = "get" /\ queue # <<>>)
                => ENABLED (Get /\ UNCHANGED <<loopVars, storeVars, dedupVars, aggVars,
                                               fltVars, muVars, loadVars, telegramAccounts>>)
          /\ (hist.done.message # 0 /\ hist.produced < MaxMessages)
                => ENABLED (Enqueue(hist.done.chat_id)
                               /\ UNCHANGED <<loopVars, storeVars, dedupVars, aggVars,
                                              fltVars, muVars, loadVars>>))
    /\ [][hist'.finished # hist.finished
            => /\ cons' = NoMessage
               /\ queue' = queue
               /\ hist'.done.message = cons.message
               /\ hist'.done.outcome \in Outcomes \cup {"exception"}
               /\ UNCHANGED loopVars ]_vars

\* after a message given up on timeouts and one that ended in an unhandled
\* exception, the worker is ready for the next one, which is queued
C24_Witness ==
    /\ cons = NoMessage
    /\ hist.done.outcome = "exception"
    /\ Cardinality(hist.finished) >= 2
    /\ queue # <<>>

C26_SingleWorker ==
    LiveWorkers <= 1

\* C27: for a filter made from an exclude-list alone, a market gets past the
\* category allow-list, and the trade past the filter whose other gates
\* are open, exactly when none of the market's categories is in the
\* exclude-list (taken by its canonical names).
C27_InversionEquivalent ==
    (flt_done /\ flt_in.filter \in FltMigrated)
    => LET E    == excluded_canonical(flt_in.filter.exclude_categories)
           none == Range(flt_in.market.categories) \cap E = {}
       IN  /\ GateCategory(flt_in.market, flt_in.filter) <=> none
           /\ flt_out <=> none

\* C28: a partition of a single fill gives an AggregatedTrade with
\* fill_count 1, total_size the size of the fill and vwap_price exactly the
\* price of the fill.
C28_LoneFill ==
    (agg_done /\ Len(agg_in) = 1)
    => /\ agg_out.raised = ""
       /\ agg_out.returned[1].fill_count = 1
       /\ agg_out.returned[1].total_size = agg_in[1].size
       /\ agg_out.returned[1].vwap_price = agg_in[1].price

\* C29: from_fills of the empty list of fills ends in the error and gives
\* no trade.
C29_EmptyRaises ==
    (agg_done /\ agg_in = <<>>)
    => (agg_out.raised = ValueError /\ agg_out.returned = <<>>)

\* from_fills was called with the empty list
C29_Witness ==
    agg_done /\ agg_in = <<>> /\ agg_out.raised # ""

\* every value the marker can have
Markers ==
    {NoMarker} \cup {TradeMarker(t.timestamp, t.transaction_hash) : t \in AllTrades}
               \cup {TradeMarker(t.timestamp, None) : t \in AllTrades}

LookupOf(k) == Cardinality({m \in 1..k : load.at_find[m].enabled})

\* C31: when a filter load has returned, every filter of the list belongs
\* to a config that was enabled when the configs were read and carries the
\* chat of an account of its user that was flagged active when that account
\* was looked up; a config that was disabled at the read, or whose user had
\* no active account at the lookup, has no filter in the list.
C31_LoadedEnabledAndActive ==
    load # <<>> /\ load.pc = "return" =>
        /\ \A j \in DOMAIN load.user_filters :
              LET f == load.user_filters[j]
              IN  /\ f.enabled
                  /\ \E k \in DOMAIN load.at_find :
                        /\ load.at_find[k].userId = f.user_id
                        /\ load.at_find[k].enabled
                        /\ AccountUser(f.telegram_chat_id) = f.user_id
                        /\ load.at_lookup[LookupOf(k)][f.telegram_chat_id]
        /\ \A k \in DOMAIN load.at_find :
              (\/ ~load.at_find[k].enabled
               \/ \A chat_id \in Chats :
                     AccountUser(chat_id) = load.at_find[k].userId
                        => ~load.at_lookup[LookupOf(k)][chat_id])
                 => \A j \in DOMAIN load.user_filters :
                       load.user_filters[j].user_id # load.at_find[k].userId

\* a load has returned a filter although a second user with an active
\* account had the alerts off and a third, enabled, had an inactive
\* account, and the store was changed while the load ran
C31_Witness ==
    /\ load # <<>> /\ load.pc = "return"
    /\ load.user_filters # <<>>
    /\ load.changes > 0
    /\ \E k \in DOMAIN load.at_find :
          /\ ~load.at_find[k].enabled
          /\ \E chat_id \in Chats :
                AccountUser(chat_id) = load.at_find[k].userId /\ telegramAccounts[chat_id]
    /\ \E k \in DOMAIN load.at_find :
          /\ load.at_find[k].enabled /\ load.at_find[k].userId # ""
          /\ \A chat_id \in Chats :
                AccountUser(chat_id) = load.at_find[k].userId
                   => ~load.at_lookup[LookupOf(k)][chat_id]

\* the seven fields the fill key is made of
KeyFieldsOf(fill) ==
    <<fill.transaction_hash, fill.proxy_wallet, fill.condition_id, fill.outcome,
      fill.side, fill.size, fill.price>>

\* C32: two fills have the same fill key if and only if they agree on
\* transaction hash, wallet, condition id, outcome, side, size and price.
C32_KeyIffFields ==
    (agg_done /\ Len(agg_in) = 2 /\ Len(agg_out) = 2) =>
        (agg_out[1] = agg_out[2] <=> KeyFieldsOf(agg_in[1]) = KeyFieldsOf(agg_in[2]))

\* the filters of the in-memory list, in its order, that match the trade
\* and have a chat id
MatchingWithChat(agg_trade, market) ==
    SelectSeq(all_user_filters,
              LAMBDA f : /\ aggregated_trade_matches_user_filter(agg_trade, market, f)
                         /\ f.telegram_chat_id \notin {None, ""})

\* C33: the step that processes an aggregated trade enqueues exactly one
\* message for every filter of the in-memory list that matches the trade
\* and has a non-empty chat id, addressed to that chat, and nothing else;
\* it enqueues nothing when the trade has no condition id or no market
\* metadata is cached for it.
C33_OneMessagePerMatch ==
    [][ pc = "match" =>
           LET agg_trade == aggregated_trades[match_i]
               added     == SubSeq(queue', Len(queue) + 1, Len(queue'))
           IN  /\ Len(queue') >= Len(queue)
               /\ SubSeq(queue', 1, Len(queue)) = queue
               /\ IF agg_trade.condition_id \in {None, ""}
                     \/ agg_trade.condition_id \notin marketCache
                  THEN added = <<>>
                  ELSE LET market == MarketOf(agg_trade.condition_id)
                           to     == MatchingWithChat(agg_trade, market)
                       IN  /\ Len(added) = Len(to)
                           /\ \A i \in DOMAIN to :
                                 /\ added[i].chat_id = to[i].telegram_chat_id
                                 /\ added[i].message = AlertMessage(agg_trade, market) ]_vars

\* a cycle has processed two trades with three filters in memory: for the
\* one with cached metadata two messages were enqueued, none for the
\* matching filter without a chat id, and none for the trade without a
\* condition id
C33_Witness ==
    /\ pc = "advance" /\ Len(aggregated_trades) = 2
    /\ Len(all_user_filters) = 3
    /\ \E i \in DOMAIN aggregated_trades : aggregated_trades[i].condition_id = None
    /\ \E i \in DOMAIN aggregated_trades :
          /\ aggregated_trades[i].condition_id \in marketCache
          /\ \A j \in DOMAIN all_user_filters :
                aggregated_trade_matches_user_filter(
                    aggregated_trades[i], MarketOf(aggregated_trades[i].condition_id),
                    all_user_filters[j])
    /\ Len(queue) = 2

\* the fill keys of the fills that belong to aggregation key k
FillKeysOf(k) == {get_fill_key(t) : t \in {x \in AllTrades : get_aggregation_key(x) = k}}

\* C34: within the TTL window of the dedup records at most one aggregated
\* trade per aggregation key is dispatched: a step enqueues a trade of key
\* k for a user only if no fill of k was enqueued for that user before, or
\* the latest such enqueue is at least the TTL ago.
C34_OneTradePerKey ==
    [][ \A k \in AggKeys, u \in UserIds :
           enqCount'[<<k, u>>] > enqCount[<<k, u>>]
              => \A fk \in FillKeysOf(k) :
                    \/ lastEnq[<<fk, u>>] = -1
                    \/ now >= lastEnq[<<fk, u>>] + DefaultTtlMinutes ]_vars

\* C35: whenever the poll loop clears the reload signal, the in-memory
\* filter list is what the store holds at that moment: every change that
\* raised the signal before the clear has been read.
C35_NoLostSignal ==
    [][ (reloadSignal /\ ~reloadSignal') => all_user_filters' = filterStore' ]_vars

\* what makes the check at the top of a cycle ask for a reload
ReloadTriggered ==
    check_filter_reload_signal \/ now - last_filter_reload >= filter_reload_interval

\* C36: when the re-read of a triggered reload fails, the step leaves the
\* signal and the time of the latest reload as they were; until the next
\* cycle starts the signal is not cleared and that time is not set, so the
\* trigger still holds; and the next cycle that starts goes to the re-read.
C36_FailedReloadRetried ==
    /\ [][ /\ (pc = "reread" /\ cyc'.reload = "failed")
                => /\ reloadSignal' = reloadSignal
                   /\ last_filter_reload' = last_filter_reload
           /\ (cyc.failed_reload = "this" /\ cyc'.failed_reload = "this")
                => /\ reloadSignal => reloadSignal'
                   /\ last_filter_reload' = last_filter_reload
           /\ (pc = "start" /\ cyc.failed_reload = "this" /\ cycles' = cycles + 1)
                => pc' = "reread" /\ reload_reason' # "" ]_vars
    /\ [](cyc.failed_reload = "this" => ReloadTriggered)

\* the cycle after one whose reload failed is at the re-read again, for the
\* signal that is still set
C36_Witness ==
    /\ pc = "reread" /\ cyc.failed_reload = "previous"
    /\ reload_reason = "settings changed" /\ reloadSignal

\* the dedup record of a fill exists and has not expired
LiveRecord(store, fill, time) ==
    store[get_fill_key(fill)] # NoDoc /\ time < store[get_fill_key(fill)]

\* C37: once Step 2 of a cycle is complete, every fill that survived
\* deduplication has a live dedup record, during Steps 3 to 5 and in the
\* state the cycle ends in, whatever became of its trade.
C37_SurvivorsMarked ==
    /\ [](pc \in {"enrich", "match", "advance"}
             => \A i \in DOMAIN new_fills : LiveRecord(processedTrades, new_fills[i], now))
    /\ [][ (pc \in {"enrich", "match", "advance"} /\ pc' = "sleep")
             => \A i \in DOMAIN new_fills :
                   LiveRecord(processedTrades', new_fills[i], now') ]_vars

\* a cycle is at its end with two trades: one without market metadata,
\* nothing enqueued for it, and one that was dispatched; the fills of both
\* have live records
C37_Witness ==
    /\ pc = "advance" /\ Len(aggregated_trades) = 2
    /\ \E i \in DOMAIN aggregated_trades : aggregated_trades[i].condition_id \notin marketCache
    /\ \E i \in DOMAIN aggregated_trades :
          /\ aggregated_trades[i].condition_id \in marketCache
          /\ \E m \in DOMAIN queue :
                queue[m].message.market = aggregated_trades[i].condition_id
    /\ \A i \in DOMAIN new_fills : LiveRecord(processedTrades, new_fills[i], now)

\* C38: messages are numbered in the order of their enqueue.  Whenever the
\* worker makes a send attempt for a message (the first or a retry), every
\* message enqueued earlier is finished: _send_message has returned for it,
\* sent or given up, or an exception has dropped it.
C38_SentInOrder ==
    [][ (cons.pc = "post" /\ cons'.pc = "wait")
           => /\ \A m \in 1..(cons.message - 1) : m \in hist.finished
              /\ \A i \in DOMAIN queue : queue[i].message > cons.message ]_vars

\* the worker is in a request for the second or third message, a later
\* one waits in the queue, and the earlier ones are finished
C38_Witness ==
    /\ cons.pc = "wait" /\ cons.message >= 2
    /\ queue # <<>>
    /\ \A m \in 1..(cons.message - 1) : m \in hist.finished
    /\ hist.attempts >= 2
\* message m waits in the queue
Queued(m) == \E i \in DOMAIN queue : queue[i].message = m

\* C39: while the worker runs and every request ends, each message that is
\* enqueued is taken from the queue and a request is made for it: no
\* message stays in the queue forever.
C39_EveryMessageAttempted ==
    \A m \in 1..MaxMessages :
       /\ Queued(m) ~> (cons.message = m /\ cons.pc = "wait")
       /\ Queued(m) ~> ~Queued(m)

\* the last message, enqueued while the worker slept before a retry of an
\* earlier one, is in its request and the queue is empty
C39_Witness ==
    /\ cons.pc = "wait" /\ cons.message = MaxMessages
    /\ queue = <<>>
    /\ hist.finished = 1..(MaxMessages - 1)
    /\ "retry" \in hist.enq_during

====
